---- MODULE Spec2Model ----
(***************************************************************************)
(* Model of the seismic estimation core of sismoalert, of a caller that    *)
(* calls it repeatedly, of the TsunamiWarning and EarthquakeAlert          *)
(* components, of the Home page with its polling, and of the fetch         *)
(* handler of the service worker.                                          *)
(*                                                                         *)
(* Numbers.  The source computes with IEEE doubles; the model computes     *)
(* with fixed-point integers:                                              *)
(*   - angles, trigonometric values, logarithms, attenuation terms:        *)
(*     millionths (MICRO);                                                 *)
(*   - coordinates: 1e-4 degree;                                           *)
(*   - distances and depths: hectometres (0.1 km);                         *)
(*   - magnitudes and Mercalli inputs: tenths;                             *)
(*   - seismic travel times: milliseconds; tsunami times: 1e-3 minute.     *)
(* Non-finite doubles (log10(0) = -Infinity, NaN) are modelled explicitly  *)
(* by the extended numbers Fin / PosInf / NegInf / NaN.                    *)
(***************************************************************************)
EXTENDS Integers, Sequences, FiniteSets, TLC

(***************************************************************************)
(* Fixed-point arithmetic (the Math.* functions the source calls)          *)
(***************************************************************************)
MICRO == 1000000

Abs(x) == IF x < 0 THEN -x ELSE x

Sgn(x) == IF x < 0 THEN -1 ELSE 1

\* floor(x * y / MICRO) for x, y >= 0, without leaving 32 bits
MulAbs(x, y) ==
  LET xh == x \div 1000
      xl == x % 1000
      yh == y \div 1000
      yl == y % 1000
  IN  xh * yh + ((xh * yl + xl * yh) + (xl * yl) \div 1000) \div 1000

\* the product of two fixed-point numbers
MulS(x, y) == Sgn(x) * Sgn(y) * MulAbs(Abs(x), Abs(y))

\* floor(y * MICRO / x) for 0 <= y <= x, x > 0
DivS(y, x) ==
  LET q1 == (y * 1000) \div x
      r1 == (y * 1000) % x
  IN  q1 * 1000 + (r1 * 1000) \div x

RECURSIVE SqrtBS(_, _, _)
SqrtBS(a, lo, hi) ==
  IF lo >= hi THEN lo
  ELSE LET mid == (lo + hi) \div 2
       IN  IF MulAbs(mid, mid) >= a THEN SqrtBS(a, lo, mid)
                                    ELSE SqrtBS(a, mid + 1, hi)

\* Math.sqrt on fixed-point numbers in [0, 2]: the least r with r*r >= a
Sqrt(a) == SqrtBS(a, 0, 2 * MICRO)

RECURSIVE ISqrtBS(_, _, _)
ISqrtBS(n, lo, hi) ==
  IF lo >= hi THEN lo
  ELSE LET mid == (lo + hi + 1) \div 2
       IN  IF mid * mid <= n THEN ISqrtBS(n, mid, hi)
                             ELSE ISqrtBS(n, lo, mid - 1)

\* Math.sqrt on a squared length in hm^2: floor of the root, in hm
ISqrt(n) == ISqrtBS(n, 0, 46340)

RECURSIVE Series(_, _, _, _, _)
Series(term, x2, n, last, acc) ==
  IF n > last \/ term = 0 THEN acc
  ELSE LET t == -(MulS(term, x2) \div ((n - 1) * n))
       IN  Series(t, x2, n + 2, last, acc + t)

\* Math.sin and Math.cos by their Taylor series, |x| <= pi; the sine is odd
\* (sin(-x) = -sin(x)) and the cosine even, as the IEEE functions are
Sin(x) == Sgn(x) * Series(Abs(x), MulS(x, x), 3, 15, Abs(x))

Cos(x) == Series(MICRO, MulS(x, x), 2, 14, MICRO)

PI == 3141593

RECURSIVE AtanSeries(_, _, _, _, _)
AtanSeries(pow, t2, n, last, acc) ==
  IF n > last \/ pow = 0 THEN acc
  ELSE LET p == -MulS(pow, t2)
       IN  AtanSeries(p, t2, n + 2, last, acc + p \div n)

AtanSmall(t) == AtanSeries(t, MulS(t, t), 3, 15, t)

\* tan(x/2) from tan(x) = t, 0 <= t <= 1
Halve(t) == DivS(t, MICRO + Sqrt(MICRO + MulS(t, t)))

Atan01(t) == 4 * AtanSmall(Halve(Halve(t)))

\* Math.atan2(y, x) for y, x >= 0, not both 0
Atan2(y, x) ==
  IF y = 0 THEN 0
  ELSE IF y <= x THEN Atan01(DivS(y, x))
  ELSE PI \div 2 - Atan01(DivS(x, y))

RECURSIVE Pow2(_)
Pow2(k) == IF k = 0 THEN 1 ELSE 2 * Pow2(k - 1)

RECURSIVE Log2Frac(_, _, _)
Log2Frac(m, i, acc) ==
  IF i > 20 THEN acc
  ELSE LET sq == MulAbs(m, m)
       IN  IF sq >= 2 * MICRO THEN Log2Frac(sq \div 2, i + 1, 2 * acc + 1)
                              ELSE Log2Frac(sq, i + 1, 2 * acc)

\* Math.log10 of a positive distance of n hectometres (n/10 km), in MICRO
Log10hm(n) ==
  LET k  == CHOOSE j \in 0..20 : Pow2(j) <= n /\ n < Pow2(j + 1)
      m  == ((n * 1000) \div Pow2(k)) * 1000
              + (((n * 1000) % Pow2(k)) * 1000) \div Pow2(k)
      f  == Log2Frac(m, 1, 0)
      l2 == k * MICRO + MulAbs(f, 953674)
  IN  MulAbs(l2, 301030) - MICRO

(***************************************************************************)
(* Extended numbers: a double is finite, +-Infinity or NaN                 *)
(***************************************************************************)
Fin(v) == [k |-> "fin", v |-> v]

PosInf == [k |-> "inf", v |-> 1]

NegInf == [k |-> "inf", v |-> -1]

NaN == [k |-> "nan", v |-> 0]

\* Math.log10 of a distance in hectometres
Log10X(d) ==
  IF d < 0 THEN NaN
  ELSE IF d = 0 THEN NegInf
  ELSE Fin(Log10hm(d))

\* x * m for an extended x and a finite fixed-point m
ScaleX(x, m) ==
  CASE x.k = "nan" -> NaN
    [] x.k = "inf" -> IF m = 0 THEN NaN
                      ELSE IF m > 0 THEN x ELSE [k |-> "inf", v |-> -x.v]
    [] OTHER       -> Fin(MulS(x.v, m))

\* x - y
SubX(x, y) ==
  CASE x.k = "nan" \/ y.k = "nan" -> NaN
    [] x.k = "inf" /\ y.k = "inf" -> IF x.v = y.v THEN NaN ELSE x
    [] x.k = "inf"                -> x
    [] y.k = "inf"                -> [k |-> "inf", v |-> -y.v]
    [] OTHER                      -> Fin(x.v - y.v)

\* Math.round: the nearest integer, halves towards +Infinity
RoundX(x) ==
  IF x.k = "fin" THEN Fin((x.v + MICRO \div 2) \div MICRO) ELSE x

\* Math.max(n, x) and Math.min(n, x) for an integer n
MaxX(n, x) ==
  CASE x.k = "nan" -> NaN
    [] x.k = "inf" -> IF x.v > 0 THEN x ELSE Fin(n)
    [] OTHER       -> IF x.v > n THEN x ELSE Fin(n)

MinX(n, x) ==
  CASE x.k = "nan" -> NaN
    [] x.k = "inf" -> IF x.v < 0 THEN x ELSE Fin(n)
    [] OTHER       -> IF x.v < n THEN x ELSE Fin(n)

(***************************************************************************)
(* utils/seismic-calculations.ts                                           *)
(***************************************************************************)
\* the table with the two velocities of the southern zone exchanged
velocidadesRegionales_swapped ==
  [norte   |-> [ondaP |-> 82, ondaS |-> 42],
   centro  |-> [ondaP |-> 80, ondaS |-> 40],
   sur     |-> [ondaP |-> 38, ondaS |-> 78],
   austral |-> [ondaP |-> 81, ondaS |-> 41]]

\* wave velocities in tenths of km/s
velocidadesRegionales ==
  [norte   |-> [ondaP |-> 82, ondaS |-> 42],
   centro  |-> [ondaP |-> 80, ondaS |-> 40],
   sur     |-> [ondaP |-> 78, ondaS |-> 38],
   austral |-> [ondaP |-> 81, ondaS |-> 41]]

\* Array.prototype.includes
Includes(list, x) == \E i \in 1..Len(list) : list[i] = x

\* the chain without the code of Nuble, the region created last
ZoneTests_noNuble ==
  << [codes |-> <<"15", "01", "02", "03">>,       zone |-> "norte"],
     [codes |-> <<"04", "05", "13", "06", "07">>, zone |-> "centro"],
     [codes |-> <<"08", "09", "14", "10">>,       zone |-> "sur"],
     [codes |-> <<"11", "12">>,                   zone |-> "austral"] >>

\* the if / else-if chain of regionToMacroZone, in the order it is tested
ZoneTests ==
  << [codes |-> <<"15", "01", "02", "03">>,       zone |-> "norte"],
     [codes |-> <<"04", "05", "13", "06", "07">>, zone |-> "centro"],
     [codes |-> <<"16", "08", "09", "14", "10">>, zone |-> "sur"],
     [codes |-> <<"11", "12">>,                   zone |-> "austral"] >>

RECURSIVE FirstMatch(_, _, _)
FirstMatch(tests, i, regionCode) ==
  IF i > Len(tests) THEN "centro"
  ELSE IF Includes(tests[i].codes, regionCode) THEN tests[i].zone
  ELSE FirstMatch(tests, i + 1, regionCode)

regionToMacroZone(regionCode) == FirstMatch(ZoneTests, 1, regionCode)

\* the table of getRegionName (names without diacritics)
regions ==
  [c \in {"15", "01", "02", "03", "04", "05", "13", "06", "07",
          "16", "08", "09", "14", "10", "11", "12"} |->
     CASE c = "15" -> "Arica y Parinacota"
       [] c = "01" -> "Tarapaca"
       [] c = "02" -> "Antofagasta"
       [] c = "03" -> "Atacama"
       [] c = "04" -> "Coquimbo"
       [] c = "05" -> "Valparaiso"
       [] c = "13" -> "Metropolitana"
       [] c = "06" -> "O'Higgins"
       [] c = "07" -> "Maule"
       [] c = "16" -> "Nuble"
       [] c = "08" -> "Biobio"
       [] c = "09" -> "Araucania"
       [] c = "14" -> "Los Rios"
       [] c = "10" -> "Los Lagos"
       [] c = "11" -> "Aysen"
       [] c = "12" -> "Magallanes"]

getRegionName(regionCode) ==
  IF regionCode \in DOMAIN regions THEN regions[regionCode]
  ELSE "Region desconocida"

\* degrees (1e-4 degree) to radians (MICRO): degrees * (Math.PI / 180)
toRadians(degrees) == MulS(degrees, 1745329)

\* x / 2, rounded towards zero so that Half(-x) = -Half(x)
Half(x) == Sgn(x) * (Abs(x) \div 2)

\* the distance with Math.cos(toRadians(lat1)) taken twice
calcularDistanciaHaversine_cosLat1(lat1, lon1, lat2, lon2) ==
  LET dLat == toRadians(lat2 - lat1)
      dLon == toRadians(lon2 - lon1)
      sLat == Sin(Half(dLat))
      sLon == Sin(Half(dLon))
      a    == MulS(sLat, sLat)
                + MulS(MulS(MulS(Cos(toRadians(lat1)), Cos(toRadians(lat1))),
                            sLon), sLon)
      c    == 2 * Atan2(Sqrt(a), Sqrt(MICRO - a))
  IN  ((c \div 100) * 6371) \div 1000

\* great-circle distance in hectometres, R = 6371 km
calcularDistanciaHaversine(lat1, lon1, lat2, lon2) ==
  LET dLat == toRadians(lat2 - lat1)
      dLon == toRadians(lon2 - lon1)
      sLat == Sin(Half(dLat))
      sLon == Sin(Half(dLon))
      a    == MulS(sLat, sLat)
                + MulS(MulS(MulS(Cos(toRadians(lat1)), Cos(toRadians(lat2))),
                            sLon), sLon)
      c    == 2 * Atan2(Sqrt(a), Sqrt(MICRO - a))
  IN  ((c \div 100) * 6371) \div 1000

\* 1.15 or 1.0, in hundredths
calcularFactorTopografico(epicentroLat, epicentroLon, usuarioLat, usuarioLon) ==
  LET crossesAndes == Abs(epicentroLon - usuarioLon) > 5000
  IN  IF crossesAndes THEN 115 ELSE 100

\* calcularTiempoLlegada with tiempoAlerta: tiempoOndaS - 10, without Math.max
calcularTiempoLlegada_noMax(epicentroLat, epicentroLon, usuarioLat, usuarioLon, profundidadKm, regionUsuario) ==
  LET macroZona         == regionToMacroZone(regionUsuario)
      ondaP             == velocidadesRegionales[macroZona].ondaP
      ondaS             == velocidadesRegionales[macroZona].ondaS
      distanciaKm       == calcularDistanciaHaversine(epicentroLat, epicentroLon,
                                                      usuarioLat, usuarioLon)
      factorTopografico == calcularFactorTopografico(epicentroLat, epicentroLon,
                                                     usuarioLat, usuarioLon)
      horizontal        == (distanciaKm * factorTopografico) \div 100
      distanciaTotal    == ISqrt(horizontal * horizontal
                                 + profundidadKm * profundidadKm)
      tiempoOndaP       == (distanciaTotal * 1000) \div ondaP
      tiempoOndaS       == (distanciaTotal * 1000) \div ondaS
  IN  IF macroZona \notin DOMAIN velocidadesRegionales
      THEN [threw |-> TRUE]
      ELSE
      [threw              |-> FALSE,
       tiempoOndaP        |-> tiempoOndaP,
       tiempoOndaS        |-> tiempoOndaS,
       diferenciaSegundos |-> tiempoOndaS - tiempoOndaP,
       tiempoAlerta       |-> tiempoOndaS - 10000,
       distanciaKm        |-> distanciaKm]

\* the result of calcularTiempoLlegada; the function has no throw statement
\* and no validation of its arguments: it returns (threw = FALSE) unless the
\* velocity table has no entry for the zone, where velocidades.ondaP is a
\* TypeError (threw = TRUE)
calcularTiempoLlegada(epicentroLat, epicentroLon, usuarioLat, usuarioLon, profundidadKm, regionUsuario) ==
  LET macroZona         == regionToMacroZone(regionUsuario)
      ondaP             == velocidadesRegionales[macroZona].ondaP
      ondaS             == velocidadesRegionales[macroZona].ondaS
      distanciaKm       == calcularDistanciaHaversine(epicentroLat, epicentroLon,
                                                      usuarioLat, usuarioLon)
      factorTopografico == calcularFactorTopografico(epicentroLat, epicentroLon,
                                                     usuarioLat, usuarioLon)
      horizontal        == (distanciaKm * factorTopografico) \div 100
      distanciaTotal    == ISqrt(horizontal * horizontal
                                 + profundidadKm * profundidadKm)
      tiempoOndaP       == (distanciaTotal * 1000) \div ondaP
      tiempoOndaS       == (distanciaTotal * 1000) \div ondaS
  IN  IF macroZona \notin DOMAIN velocidadesRegionales
      THEN [threw |-> TRUE]
      ELSE
      [threw              |-> FALSE,
       tiempoOndaP        |-> tiempoOndaP,
       tiempoOndaS        |-> tiempoOndaS,
       diferenciaSegundos |-> tiempoOndaS - tiempoOndaP,
       tiempoAlerta       |-> IF tiempoOndaS - 10000 > 0
                              THEN tiempoOndaS - 10000 ELSE 0,
       distanciaKm        |-> distanciaKm]

\* the text of formatearTiempo as its parts: "<segundos>s" (minutos absent)
\* or "<minutos>m <segundos>s"; the argument is in milliseconds, Math.round
\* of seconds is (ms + 500) \div 1000
formatearTiempo(segundos) ==
  IF segundos < 0 THEN [minutos |-> << >>, segundos |-> 0]
  ELSE IF segundos < 60000
  THEN [minutos |-> << >>, segundos |-> (segundos + 500) \div 1000]
  ELSE [minutos  |-> << segundos \div 60000 >>,
        segundos |-> ((segundos % 60000) + 500) \div 1000]

(***************************************************************************)
(* utils/intensity-calculations.ts                                         *)
(***************************************************************************)
\* the coefficient table without the austral zone
coeficientesRegionales_noAustral ==
  [norte   |-> [a |-> 1480000, b |-> 480000, c |-> 6500],
   centro  |-> [a |-> 1520000, b |-> 520000, c |-> 7000],
   sur     |-> [a |-> 1550000, b |-> 550000, c |-> 7500]]

\* attenuation coefficients in MICRO
coeficientesRegionales ==
  [norte   |-> [a |-> 1480000, b |-> 480000, c |-> 6500],
   centro  |-> [a |-> 1520000, b |-> 520000, c |-> 7000],
   sur     |-> [a |-> 1550000, b |-> 550000, c |-> 7500],
   austral |-> [a |-> 1500000, b |-> 500000, c |-> 6800]]

\* soil amplification factors in tenths
factoresSuelo ==
  [roca         |-> 10,
   suelo_firme  |-> 12,
   suelo_blando |-> 16,
   relleno      |-> 20,
   arenoso      |-> 18,
   arcilloso    |-> 17,
   aluvial      |-> 19,
   volcanico    |-> 15]

\* the depth factor with the limits 30 km and 70 km on the shallow side
factorProfundidad_inclusive(profundidadKm) ==
  IF profundidadKm <= 300 THEN 12
  ELSE IF profundidadKm <= 700 THEN 10
  ELSE 8

\* 1.2, 1.0 or 0.8 in tenths; the depth is in hectometres
factorProfundidad(profundidadKm) ==
  IF profundidadKm < 300 THEN 12
  ELSE IF profundidadKm < 700 THEN 10
  ELSE 8

\* the attenuation formula with the linear term added:
\* a * magnitud - b * Math.log10(distanciaKm) + c * distanciaKm
intensidadBase_plus(magnitud, distanciaKm, coef) ==
  SubX(SubX(Fin(MulS(coef.a, magnitud * (MICRO \div 10))),
            ScaleX(Log10X(distanciaKm), coef.b)),
       Fin(-((coef.c * distanciaKm) \div 10)))

\* a * magnitud - b * Math.log10(distanciaKm) - c * distanciaKm
intensidadBase(magnitud, distanciaKm, coef) ==
  SubX(SubX(Fin(MulS(coef.a, magnitud * (MICRO \div 10))),
            ScaleX(Log10X(distanciaKm), coef.b)),
       Fin((coef.c * distanciaKm) \div 10))

\* x * f for a factor f in tenths
TimesTenths(x, f) ==
  CASE x.k = "fin" -> Fin((x.v * f) \div 10)
    [] OTHER       -> ScaleX(x, f * (MICRO \div 10))

\* estimarIntensidadLocal without the lower clamp Math.max(1, ...)
estimarIntensidadLocal_noMax(magnitud, profundidadKm, distanciaKm, tipoSuelo, regionUsuario) ==
  LET macroZona == regionToMacroZone(regionUsuario)
      coef      == coeficientesRegionales[macroZona]
      base0     == intensidadBase(magnitud, distanciaKm, coef)
      base1     == TimesTenths(base0, factorProfundidad(profundidadKm))
      base2     == TimesTenths(base1, factoresSuelo[tipoSuelo])
  IN  IF macroZona \notin DOMAIN coeficientesRegionales
      THEN [threw |-> TRUE]
      ELSE [threw |-> FALSE, value |-> MinX(12, RoundX(base2))]

\* the Mercalli intensity as an extended number; the function has no throw
\* statement and no validation of its arguments: it returns (threw = FALSE)
\* unless the coefficient table has no entry for the zone, where the
\* destructuring of line 56 is a TypeError (threw = TRUE)
estimarIntensidadLocal(magnitud, profundidadKm, distanciaKm, tipoSuelo, regionUsuario) ==
  LET macroZona == regionToMacroZone(regionUsuario)
      coef      == coeficientesRegionales[macroZona]
      base0     == intensidadBase(magnitud, distanciaKm, coef)
      base1     == TimesTenths(base0, factorProfundidad(profundidadKm))
      base2     == TimesTenths(base1, factoresSuelo[tipoSuelo])
  IN  IF macroZona \notin DOMAIN coeficientesRegionales
      THEN [threw |-> TRUE]
      ELSE [threw |-> FALSE, value |-> MinX(12, MaxX(1, RoundX(base2)))]

\* general instructions per intensity band (texts without diacritics)
recomendacionesBase ==
  << << "No se requieren medidas especiales",
        "Manten la calma, es un sismo de baja intensidad" >>,
     << "Alejate de ventanas y objetos que puedan caer",
        "Ubicate bajo una mesa resistente o junto a un muro estructural",
        "Manten la calma y espera a que termine el movimiento" >>,
     << "Protege tu cabeza y cuello con tus brazos",
        "Ubicate bajo una mesa resistente o junto a un muro estructural",
        "Alejate de ventanas, espejos y muebles altos",
        "No uses ascensores",
        "Corta suministros de gas y electricidad si es posible" >>,
     << "Protege tu cabeza y cuello con tus brazos",
        "Ubicate bajo una mesa resistente o junto a un muro estructural",
        "Alejate de ventanas, espejos y muebles altos",
        "No uses ascensores",
        "Corta suministros de gas y electricidad si es posible",
        "Preparate para evacuar despues del sismo",
        "Ten cuidado con replicas",
        "Sigue las instrucciones de las autoridades" >> >>

\* instructions per construction type
recomendacionesEspecificas ==
  [hormigon    |->
     << "Las estructuras de hormigon armado suelen ser resistentes a sismos moderados",
        "Alejate de elementos no estructurales como cielos falsos o luminarias" >>,
   albanileria |->
     << "Alejate de muros y tabiques que puedan agrietarse",
        "Busca proteccion bajo marcos de puertas reforzados" >>,
   madera      |->
     << "Las estructuras de madera suelen ser flexibles ante sismos",
        "Alejate de chimeneas o elementos pesados que puedan desprenderse" >>,
   adobe       |->
     << "Las construcciones de adobe son muy vulnerables a sismos",
        "Evacua al exterior si es posible hacerlo de forma segura",
        "Si no puedes evacuar, ubicate en una esquina junto a muros cortos" >>]

\* getRecomendacionesIntensidad appending only above 5 (intensidad > 5)
getRecomendacionesIntensidad_after5(intensidad, tipoConstruccion) ==
  LET recomendaciones ==
        IF intensidad <= 30 THEN recomendacionesBase[1]
        ELSE IF intensidad <= 50 THEN recomendacionesBase[2]
        ELSE IF intensidad <= 70 THEN recomendacionesBase[3]
        ELSE recomendacionesBase[4]
  IN  IF intensidad > 50
      THEN recomendaciones \o recomendacionesEspecificas[tipoConstruccion]
      ELSE recomendaciones

\* getRecomendacionesIntensidad without the spread of the general list:
\* recomendaciones = [...recomendacionesEspecificas[tipoConstruccion]]
getRecomendacionesIntensidad_replaced(intensidad, tipoConstruccion) ==
  LET recomendaciones ==
        IF intensidad <= 30 THEN recomendacionesBase[1]
        ELSE IF intensidad <= 50 THEN recomendacionesBase[2]
        ELSE IF intensidad <= 70 THEN recomendacionesBase[3]
        ELSE recomendacionesBase[4]
  IN  IF intensidad >= 50
      THEN recomendacionesEspecificas[tipoConstruccion]
      ELSE recomendaciones

\* getRecomendacionesIntensidad with strict comparisons at the band limits
getRecomendacionesIntensidad_strict(intensidad, tipoConstruccion) ==
  LET recomendaciones ==
        IF intensidad < 30 THEN recomendacionesBase[1]
        ELSE IF intensidad < 50 THEN recomendacionesBase[2]
        ELSE IF intensidad < 70 THEN recomendacionesBase[3]
        ELSE recomendacionesBase[4]
  IN  IF intensidad >= 50
      THEN recomendaciones \o recomendacionesEspecificas[tipoConstruccion]
      ELSE recomendaciones

\* the intensity is in tenths
getRecomendacionesIntensidad(intensidad, tipoConstruccion) ==
  LET recomendaciones ==
        IF intensidad <= 30 THEN recomendacionesBase[1]
        ELSE IF intensidad <= 50 THEN recomendacionesBase[2]
        ELSE IF intensidad <= 70 THEN recomendacionesBase[3]
        ELSE recomendacionesBase[4]
  IN  IF intensidad >= 50
      THEN recomendaciones \o recomendacionesEspecificas[tipoConstruccion]
      ELSE recomendaciones

\* Math.round of an extended number given in tenths
RoundTenthsX(x) ==
  IF x.k = "fin" THEN Fin((x.v + 5) \div 10) ELSE x

\* table[index] of a JavaScript array held as a function on 0..n-1: an index
\* that is NaN, infinite or outside the array reads undefined
At(table, index) ==
  IF index.k = "fin" /\ index.v \in DOMAIN table THEN table[index.v]
  ELSE "undefined"

\* the array descripciones, index 0 included (texts without diacritics)
descripciones ==
  [i \in 0..12 |->
     << "No sentido",
        "Apenas perceptible para algunas personas en reposo",
        "Sentido por personas en reposo, especialmente en pisos altos",
        "Perceptible en interiores, objetos colgantes oscilan",
        "Sentido por muchos en interiores, vajilla y ventanas vibran",
        "Sentido por casi todos, algunos platos y ventanas se rompen",
        "Sentido por todos, muebles se mueven, danos leves",
        "Dificil mantenerse de pie, danos moderados en estructuras",
        "Danos considerables en estructuras, caida de chimeneas",
        "Danos graves, edificios desplazados de cimientos",
        "Destruccion de muchas estructuras, grandes grietas en el suelo",
        "Pocas estructuras quedan en pie, puentes destruidos",
        "Destruccion total, objetos lanzados al aire" >>[i + 1]]

\* getDescripcionIntensidad without the lower clamp Math.max(1, ...)
getDescripcionIntensidad_noMax(intensidad) ==
  LET safeIntensidad == MinX(12, RoundTenthsX(intensidad))
  IN  At(descripciones, safeIntensidad)

\* the intensity is an extended number in tenths
getDescripcionIntensidad(intensidad) ==
  LET safeIntensidad == MinX(12, MaxX(1, RoundTenthsX(intensidad)))
  IN  At(descripciones, safeIntensidad)

\* the array colores, index 0 included
colores ==
  [i \in 0..12 |->
     << "#FFFFFF", "#CCFAFF", "#99EEFF", "#99CCFF", "#99FFCC", "#99FF99",
        "#FFFF99", "#FFCC99", "#FF9999", "#FF6666", "#FF3333", "#CC0000",
        "#990000" >>[i + 1]]

getColorIntensidad(intensidad) ==
  LET safeIntensidad == MinX(12, MaxX(1, RoundTenthsX(intensidad)))
  IN  At(colores, safeIntensidad)

\* the index (from 1) of the general list the if / else-if chain selects
bandIndex(intensidad) ==
  IF intensidad <= 30 THEN 1
  ELSE IF intensidad <= 50 THEN 2
  ELSE IF intensidad <= 70 THEN 3
  ELSE 4

\* the array objects of the table recomendacionesBase a call works on: the
\* literal of lines 110-138 is evaluated inside the function, so every call
\* builds new arrays, whatever became of the arrays of the call before
\* (variant: the table at module level, the same arrays in every call)
tablaDeLlamada_moduleLevel(previous) == previous

tablaDeLlamada(previous) == recomendacionesBase

\* the list a call returns when its table holds the arrays tablaBase
getRecomendacionesSobre(tablaBase, intensidad, tipoConstruccion) ==
  LET recomendaciones == tablaBase[bandIndex(intensidad)]
  IN  IF intensidad >= 50
      THEN recomendaciones \o recomendacionesEspecificas[tipoConstruccion]
      ELSE recomendaciones

\* which array of its table the returned list is: below 5 the function
\* returns recomendacionesBase[i] itself, from 5 on a new array (0)
returnedAlias(intensidad) ==
  IF intensidad >= 50 THEN 0 ELSE bandIndex(intensidad)

(***************************************************************************)
(* components/tsunami-warning.tsx                                          *)
(***************************************************************************)
\* null and a present value of a nullable field
Null == << >>

Some(x) == << x >>

COASTAL_COORDINATES ==
  << [name |-> "Arica",        lat |-> -184746, lon |-> -703136],
     [name |-> "Iquique",      lat |-> -202307, lon |-> -701356],
     [name |-> "Antofagasta",  lat |-> -236509, lon |-> -704001],
     [name |-> "Caldera",      lat |-> -270672, lon |-> -708262],
     [name |-> "Coquimbo",     lat |-> -299649, lon |-> -713394],
     [name |-> "Valparaiso",   lat |-> -330472, lon |-> -716127],
     [name |-> "San Antonio",  lat |-> -335928, lon |-> -716068],
     [name |-> "Constitucion", lat |-> -353335, lon |-> -724210],
     [name |-> "Talcahuano",   lat |-> -367249, lon |-> -731169],
     [name |-> "Lebu",         lat |-> -376083, lon |-> -736542],
     [name |-> "Valdivia",     lat |-> -398142, lon |-> -732459],
     [name |-> "Puerto Montt", lat |-> -414693, lon |-> -729424],
     [name |-> "Ancud",        lat |-> -418679, lon |-> -738278],
     [name |-> "Chaiten",      lat |-> -429192, lon |-> -727086],
     [name |-> "Puerto Aysen", lat |-> -454033, lon |-> -726990],
     [name |-> "Punta Arenas", lat |-> -531638, lon |-> -709171] >>

\* baseRisk with the depth limits included in the shallow side
baseRisk_inclusiveDepth(magnitude, depth) ==
  IF magnitude >= 80 THEN "extreme"
  ELSE IF magnitude >= 75 THEN (IF depth <= 600 THEN "high" ELSE "moderate")
  ELSE IF magnitude >= 70 THEN (IF depth <= 500 THEN "moderate" ELSE "low")
  ELSE IF magnitude >= 65 /\ depth <= 300 THEN "low"
  ELSE "none"

\* baseRisk with the depth test of the band 7.0..7.5 turned round
baseRisk_depthInverted(magnitude, depth) ==
  IF magnitude >= 80 THEN "extreme"
  ELSE IF magnitude >= 75 THEN (IF depth < 600 THEN "high" ELSE "moderate")
  ELSE IF magnitude >= 70 THEN (IF depth > 500 THEN "moderate" ELSE "low")
  ELSE IF magnitude >= 65 /\ depth < 300 THEN "low"
  ELSE "none"

\* the risk from magnitude (tenths) and depth (hm), before the adjustment
baseRisk(magnitude, depth) ==
  IF magnitude >= 80 THEN "extreme"
  ELSE IF magnitude >= 75 THEN (IF depth < 600 THEN "high" ELSE "moderate")
  ELSE IF magnitude >= 70 THEN (IF depth < 500 THEN "moderate" ELSE "low")
  ELSE IF magnitude >= 65 /\ depth < 300 THEN "low"
  ELSE "none"

\* earthquake.longitude < -70.0
isSubductionZone(longitude) == longitude < -700000

\* adjustRisk without the test risk !== "none"
adjustRisk_noneToo(risk, subduction) ==
  IF subduction
  THEN IF risk = "none" THEN "low"
       ELSE IF risk = "low" THEN "moderate"
       ELSE IF risk = "moderate" THEN "high"
       ELSE IF risk = "high" THEN "extreme"
       ELSE risk
  ELSE risk

\* the adjustment of the risk in a subduction zone
adjustRisk(risk, subduction) ==
  IF subduction /\ risk # "none"
  THEN IF risk = "low" THEN "moderate"
       ELSE IF risk = "moderate" THEN "high"
       ELSE IF risk = "high" THEN "extreme"
       ELSE risk
  ELSE risk

\* the forEach with the comparison distance <= minDistance
RECURSIVE nearestLoop_lastWins(_, _, _, _, _)
nearestLoop_lastWins(lat, lon, i, nearestPoint, minDistance) ==
  IF i > Len(COASTAL_COORDINATES)
  THEN [point |-> nearestPoint, distance |-> minDistance]
  ELSE LET distance == calcularDistanciaHaversine(lat, lon,
                         COASTAL_COORDINATES[i].lat, COASTAL_COORDINATES[i].lon)
       IN  IF distance <= minDistance
           THEN nearestLoop_lastWins(lat, lon, i + 1, i, distance)
           ELSE nearestLoop_lastWins(lat, lon, i + 1, nearestPoint, minDistance)

\* the forEach over COASTAL_COORDINATES from index i on: the nearest point
\* found so far (its index) and its distance
RECURSIVE nearestLoop(_, _, _, _, _)
nearestLoop(lat, lon, i, nearestPoint, minDistance) ==
  IF i > Len(COASTAL_COORDINATES)
  THEN [point |-> nearestPoint, distance |-> minDistance]
  ELSE LET distance == calcularDistanciaHaversine(lat, lon,
                         COASTAL_COORDINATES[i].lat, COASTAL_COORDINATES[i].lon)
       IN  IF distance < minDistance
           THEN nearestLoop(lat, lon, i + 1, i, distance)
           ELSE nearestLoop(lat, lon, i + 1, nearestPoint, minDistance)

nearestCoastal(lat, lon) ==
  nearestLoop(lat, lon, 1, 1,
              calcularDistanciaHaversine(lat, lon, COASTAL_COORDINATES[1].lat,
                                         COASTAL_COORDINATES[1].lon))

evacuationRouteTexts ==
  << "Dirijase inmediatamente a zonas altas, sobre 30 metros sobre el nivel del mar",
     "Siga las rutas de evacuacion senalizadas",
     "Alejese de rios y esteros que desembocan en el mar",
     "No utilice vehiculos para evacuar, salvo que las autoridades lo indiquen" >>

(***************************************************************************)
(* State                                                                   *)
(***************************************************************************)
VARIABLES
  args,                  \* the call under evaluation: function and arguments
  ret,                   \* what the call returned
  pc,                    \* "ready" before the call, "done" after it
  earthquake,            \* TsunamiWarning prop
  userLocation,          \* TsunamiWarning prop, Null or Some(location)
  tsunamiRisk,           \* TsunamiWarning state
  estimatedArrivalTime,  \* TsunamiWarning state, 1e-3 minute
  nearestCoastalPoint,   \* TsunamiWarning state
  distanceToCoast,       \* TsunamiWarning state, hm
  evacuationRoutes,      \* TsunamiWarning state
  timeRemaining,         \* TsunamiWarning state, 1e-3 minute
  firstRet,              \* per input, what its first call returned
  tabla,                 \* the arrays of the recomendacionesBase built last
  held,                  \* the list a caller holds from the last list call
  stale,                 \* inputs whose returned list the caller has mutated
  recalled,              \* the current call repeats an input that is stale
  alertEarthquake,       \* EarthquakeAlert prop earthquake
  alertUser,             \* EarthquakeAlert prop userLocation
  arrivalTimes,          \* EarthquakeAlert state, Null or Some(times)
  alertTimeRemaining,    \* EarthquakeAlert state timeRemaining, ms
  alertActive,           \* EarthquakeAlert state
  clock,                 \* new Date().getTime(), ms on the time line of the model
  latestEarthquake,      \* Home state, Null or Some(earthquake)
  selectedEarthquake,    \* Home state, Null or Some(earthquake)
  recentEarthquakes,     \* Home state
  loading,               \* Home state
  emergencyModeActive,   \* Home state
  located,               \* Home: getUserLocation() returns a location
  poll,                  \* fetchData: "idle", "latest" or "recent" awaited
  homeEvent,             \* the handler of Home that ran last
  userClosed,            \* Emergency Mode was closed and not opened since
  cache,                 \* service worker: the cache sismo-alert-v1, by URL
  swEvent                \* service worker: the last fetch event and its outcome

callVars == << args, ret, pc >>

tsunamiVars == << earthquake, userLocation, tsunamiRisk, estimatedArrivalTime,
                  nearestCoastalPoint, distanceToCoast, evacuationRoutes,
                  timeRemaining >>

heapVars == << firstRet, tabla, held, stale, recalled >>

alertVars == << alertEarthquake, alertUser, arrivalTimes, alertTimeRemaining,
                alertActive, clock >>

homeVars == << latestEarthquake, selectedEarthquake, recentEarthquakes,
               loading, emergencyModeActive, located, poll, homeEvent,
               userClosed >>

swVars == << cache, swEvent >>

vars == << args, ret, pc, earthquake, userLocation, tsunamiRisk,
           estimatedArrivalTime, nearestCoastalPoint, distanceToCoast,
           evacuationRoutes, timeRemaining, firstRet, tabla, held, stale,
           recalled, alertEarthquake, alertUser, arrivalTimes,
           alertTimeRemaining, alertActive, clock, latestEarthquake,
           selectedEarthquake, recentEarthquakes, loading,
           emergencyModeActive, located, poll, homeEvent, userClosed, cache,
           swEvent >>

(***************************************************************************)
(* Inputs of the pure functions                                            *)
(***************************************************************************)
\* magnitudes, in tenths
Magnitudes == {20, 45, 65, 88, 95}

\* depths in hm: negative, zero, 29 km, 69 km and both sides of the 30 km and
\* 70 km steps
Depths == {-50, 0, 290, 299, 300, 690, 699, 700}

\* distances in hm: zero, 0.1 km, 1 km, 10 km, 50 km, 100 km, 300 km, 2000 km
Distances == {0, 1, 10, 100, 500, 1000, 3000, 20000}

SoilTypes == DOMAIN factoresSuelo

ConstructionTypes == DOMAIN recomendacionesEspecificas

\* the 16 region codes, the empty string and strings that are no code
RegionCodes == DOMAIN regions \cup {"", "99", "13 ", "1", "RM"}

\* epicentres and user positions: off Valparaiso, Santiago, Iquique inland,
\* off Concepcion
Places ==
  { [lat |-> -330000, lon |-> -716000],
    [lat |-> -334500, lon |-> -706700],
    [lat |-> -202000, lon |-> -690000],
    [lat |-> -367000, lon |-> -730000] }

\* Mercalli inputs in tenths: 1..12, values between and values outside
Intensities == {10 * i : i \in 1..12} \cup {-10, 0, 4, 35, 45, 55, 75, 125, 130}

\* inputs of the two lookups, in tenths: the above, values next to the limits
\* of rounding (0.5, 1.4, 1.5, 12.4, 12.6), far values, the infinities and NaN
LookupInputs ==
  {Fin(v) : v \in Intensities \cup {-1000, 5, 14, 15, 124, 126, 1000}}
    \cup {PosInf, NegInf, NaN}

\* arguments of formatearTiempo in ms: negative, zero, next to the limits of
\* rounding below one minute and below two, whole minutes, an hour less 0.4 s
FormatInputs ==
  {-1500, -1, 0, 400, 500, 10500, 59400, 59500, 59600, 60000, 61000, 119400,
   119600, 120000, 3599600}

\* end points of distances: the places above, Arica, Punta Arenas and the
\* point 0 N 0 E
HaversinePlaces ==
  Places \cup { [lat |-> -184746, lon |-> -703136],
                [lat |-> -531638, lon |-> -709171],
                [lat |-> 0, lon |-> 0] }

\* the calls of a caller that calls repeatedly: two lists (one returned as
\* the table's own array, one as a new array) and each other estimator
ListInputs ==
  { [fn |-> "getRecomendacionesIntensidad", intensidad |-> 30,
     tipoConstruccion |-> "hormigon"],
    [fn |-> "getRecomendacionesIntensidad", intensidad |-> 50,
     tipoConstruccion |-> "adobe"] }

EstimatorInputs ==
  { [fn |-> "regionToMacroZone", regionCode |-> "11"],
    [fn |-> "calcularTiempoLlegada",
     epicentro |-> [lat |-> -330000, lon |-> -716000],
     usuario |-> [lat |-> -334500, lon |-> -706700],
     profundidadKm |-> 300, regionUsuario |-> "13"],
    [fn |-> "estimarIntensidadLocal", magnitud |-> 65, profundidadKm |-> 300,
     distanciaKm |-> 500, tipoSuelo |-> "roca", regionUsuario |-> "08"],
    [fn |-> "getDescripcionIntensidad", intensidad |-> Fin(130)],
    [fn |-> "getColorIntensidad", intensidad |-> Fin(0)] }

CallInputs == ListInputs \cup EstimatorInputs

\* no call made yet, nothing held
NoHeap ==
  /\ firstRet = [a \in CallInputs |-> Null]
  /\ tabla = recomendacionesBase
  /\ held = [alias |-> 0, list |-> << >>, mutated |-> TRUE,
             of |-> [fn |-> "none"]]
  /\ stale = {}
  /\ recalled = FALSE

(***************************************************************************)
(* The pure functions: the arguments are drawn initially, one action per   *)
(* function applies it                                                     *)
(***************************************************************************)
\* EarthquakeAlert not mounted
NoAlert ==
  /\ alertEarthquake = << >>
  /\ alertUser = << >>
  /\ arrivalTimes = << >>
  /\ alertTimeRemaining = << >>
  /\ alertActive = FALSE
  /\ clock = 0

\* Home not mounted: its useState initial values, no poll under way
NoHome ==
  /\ latestEarthquake = << >>
  /\ selectedEarthquake = << >>
  /\ recentEarthquakes = << >>
  /\ loading = TRUE
  /\ emergencyModeActive = FALSE
  /\ located = FALSE
  /\ poll = "idle"
  /\ homeEvent = [handler |-> "none", result |-> << >>, before |-> << >>]
  /\ userClosed = FALSE

\* no service worker installed
NoServiceWorker ==
  /\ cache = << >>
  /\ swEvent = << >>

NoTsunami ==
  /\ earthquake = [magnitude |-> 0, depth |-> 0, latitude |-> 0, longitude |-> 0]
  /\ userLocation = Null
  /\ tsunamiRisk = "none"
  /\ estimatedArrivalTime = Null
  /\ nearestCoastalPoint = Null
  /\ distanceToCoast = Null
  /\ evacuationRoutes = << >>
  /\ timeRemaining = Null

Init ==
  /\ pc = "ready"
  /\ ret = << >>
  /\ \/ args \in [fn : {"estimarIntensidadLocal"}, magnitud : Magnitudes,
                  profundidadKm : Depths, distanciaKm : Distances,
                  tipoSuelo : SoilTypes, regionUsuario : RegionCodes]
     \/ args \in [fn : {"calcularTiempoLlegada"}, epicentro : Places,
                  usuario : Places, profundidadKm : Depths,
                  regionUsuario : RegionCodes]
     \/ args \in [fn : {"regionToMacroZone"}, regionCode : RegionCodes]
     \/ args \in [fn : {"getRecomendacionesIntensidad"},
                  intensidad : Intensities,
                  tipoConstruccion : ConstructionTypes]
     \/ args \in [fn : {"getDescripcionIntensidad", "getColorIntensidad"},
                  intensidad : LookupInputs]
     \/ args \in [fn : {"calcularDistanciaHaversine"}, p1 : HaversinePlaces,
                  p2 : HaversinePlaces]
     \/ args \in [fn : {"formatearTiempo"}, segundos : FormatInputs]
  /\ NoTsunami
  /\ NoHeap
  /\ NoAlert
  /\ NoHome
  /\ NoServiceWorker

Return(value) ==
  /\ pc = "ready"
  /\ ret' = value
  /\ pc' = "done"
  /\ UNCHANGED args
  /\ UNCHANGED tsunamiVars
  /\ UNCHANGED heapVars
  /\ UNCHANGED << alertVars, homeVars, swVars >>

CallEstimarIntensidadLocal ==
  /\ args.fn = "estimarIntensidadLocal"
  /\ Return(estimarIntensidadLocal(args.magnitud, args.profundidadKm,
                                   args.distanciaKm, args.tipoSuelo,
                                   args.regionUsuario))

CallCalcularTiempoLlegada ==
  /\ args.fn = "calcularTiempoLlegada"
  /\ Return(calcularTiempoLlegada(args.epicentro.lat, args.epicentro.lon,
                                  args.usuario.lat, args.usuario.lon,
                                  args.profundidadKm, args.regionUsuario))

CallRegionToMacroZone ==
  /\ args.fn = "regionToMacroZone"
  /\ Return(regionToMacroZone(args.regionCode))

CallGetRecomendacionesIntensidad ==
  /\ args.fn = "getRecomendacionesIntensidad"
  /\ Return(getRecomendacionesIntensidad(args.intensidad,
                                         args.tipoConstruccion))

CallGetDescripcionIntensidad ==
  /\ args.fn = "getDescripcionIntensidad"
  /\ Return(getDescripcionIntensidad(args.intensidad))

CallGetColorIntensidad ==
  /\ args.fn = "getColorIntensidad"
  /\ Return(getColorIntensidad(args.intensidad))

CallCalcularDistanciaHaversine ==
  /\ args.fn = "calcularDistanciaHaversine"
  /\ Return(calcularDistanciaHaversine(args.p1.lat, args.p1.lon,
                                       args.p2.lat, args.p2.lon))

CallFormatearTiempo ==
  /\ args.fn = "formatearTiempo"
  /\ Return(formatearTiempo(args.segundos))

Next ==
  \/ CallEstimarIntensidadLocal
  \/ CallCalcularTiempoLlegada
  \/ CallRegionToMacroZone
  \/ CallGetRecomendacionesIntensidad
  \/ CallGetDescripcionIntensidad
  \/ CallGetColorIntensidad
  \/ CallCalcularDistanciaHaversine
  \/ CallFormatearTiempo

Spec == Init /\ [][Next]_vars

Done(fn) == pc = "done" /\ args.fn = fn

(***************************************************************************)
(* Properties of the pure functions (specification Spec)                   *)
(***************************************************************************)
\* C1: for depth >= 0, distance > 0, each soil type and every region code,
\* known or not, estimarIntensidadLocal returns without throwing and its
\* result is an integer in 1..12.
C1_IntensityInRange ==
  (Done("estimarIntensidadLocal") /\ args.profundidadKm >= 0
     /\ args.distanciaKm > 0)
  => /\ ret.threw = FALSE
     /\ ret.value.k = "fin"
     /\ ret.value.v \in 1..12

\* a far, weak earthquake felt in an unknown region: the negative attenuated
\* value is clamped to 1
C1_Witness ==
  /\ Done("estimarIntensidadLocal")
  /\ args.regionUsuario = "99"
  /\ args.profundidadKm = 0
  /\ args.distanciaKm = 20000
  /\ intensidadBase(args.magnitud, args.distanciaKm,
                    coeficientesRegionales["centro"]).v < 0
  /\ ret.value = Fin(1)

\* C2: at distance 0 the result of estimarIntensidadLocal is the value of the
\* attenuation formula at a positive floor distance (0.1 km, 1 hm), not a
\* value derived from log10(0).
C2_ZeroDistanceUsesFloor ==
  (Done("estimarIntensidadLocal") /\ args.distanciaKm = 0
     /\ args.profundidadKm >= 0)
  => ret.value = estimarIntensidadLocal(args.magnitud, args.profundidadKm, 1,
                                        args.tipoSuelo,
                                        args.regionUsuario).value

\* C6: for depth >= 0 the P wave arrives no later than the S wave, both times
\* are non-negative, diferenciaSegundos is their non-negative difference, and
\* the velocity table has a P velocity above the S velocity in all four zones.
C6_PWaveBeforeSWave ==
  /\ DOMAIN velocidadesRegionales = {"norte", "centro", "sur", "austral"}
  /\ \A z \in DOMAIN velocidadesRegionales :
       velocidadesRegionales[z].ondaP > velocidadesRegionales[z].ondaS
  /\ (Done("calcularTiempoLlegada") /\ args.profundidadKm >= 0)
     => /\ ret.tiempoOndaP <= ret.tiempoOndaS
        /\ ret.tiempoOndaP >= 0
        /\ ret.tiempoOndaS >= 0
        /\ ret.diferenciaSegundos = ret.tiempoOndaS - ret.tiempoOndaP
        /\ ret.diferenciaSegundos >= 0

\* a user of the southern zone at a distance from the epicentre
C6_Witness ==
  /\ Done("calcularTiempoLlegada")
  /\ args.profundidadKm >= 0
  /\ regionToMacroZone(args.regionUsuario) = "sur"
  /\ ret.distanciaKm > 0
  /\ 0 < ret.tiempoOndaP
  /\ ret.tiempoOndaP < ret.tiempoOndaS

\* C7: tiempoAlerta is tiempoOndaS - 10 s when tiempoOndaS >= 10 s and 0
\* otherwise; it is never negative and never above tiempoOndaS.
C7_AlertLeadTime ==
  Done("calcularTiempoLlegada")
  => /\ ret.tiempoAlerta = IF ret.tiempoOndaS >= 10000
                           THEN ret.tiempoOndaS - 10000 ELSE 0
     /\ ret.tiempoAlerta >= 0
     /\ ret.tiempoAlerta <= ret.tiempoOndaS

\* the S wave arrives in less than 10 s: no lead time is left
C7_Witness ==
  /\ Done("calcularTiempoLlegada")
  /\ ret.tiempoOndaS > 0
  /\ ret.tiempoOndaS < 10000
  /\ ret.tiempoAlerta = 0

\* C8: a call of calcularTiempoLlegada or estimarIntensidadLocal with a
\* depth < 0 is rejected with an input-validation error.
C8_NegativeDepthRejected ==
  /\ (Done("calcularTiempoLlegada") /\ args.profundidadKm < 0) => ret.threw
  /\ (Done("estimarIntensidadLocal") /\ args.profundidadKm < 0
        /\ args.distanciaKm > 0) => ret.threw

\* the orders in which the four lists of regionToMacroZone can be tested
ZoneTestOrders ==
  {p \in [1..Len(ZoneTests) -> 1..Len(ZoneTests)] :
     \A i, j \in 1..Len(ZoneTests) : i # j => p[i] # p[j]}

\* C9: regionToMacroZone is total; each of the 16 codes of getRegionName is in
\* exactly one zone list, so the result is the same in every order of the
\* tests; every other string, the empty one included, gives "centro".
C9_RegionToMacroZoneTotal ==
  /\ Cardinality(DOMAIN regions) = 16
  /\ Done("regionToMacroZone")
     => LET code == args.regionCode
            hits == {i \in 1..Len(ZoneTests) :
                       Includes(ZoneTests[i].codes, code)}
        IN  /\ ret \in {"norte", "centro", "sur", "austral"}
            /\ getRegionName(code) # "Region desconocida"
               => /\ Cardinality(hits) = 1
                  /\ \A i \in hits : ret = ZoneTests[i].zone
                  /\ \A p \in ZoneTestOrders :
                       FirstMatch([i \in 1..Len(ZoneTests) |-> ZoneTests[p[i]]],
                                  1, code) = ret
            /\ getRegionName(code) = "Region desconocida"
               => (hits = {} /\ ret = "centro")

\* Nuble, the last code of the table, is mapped to the southern zone
C9_Witness ==
  /\ Done("regionToMacroZone")
  /\ args.regionCode = "16"
  /\ getRegionName(args.regionCode) = "Nuble"
  /\ ret = "sur"

\* C10: for an integer intensity in 1..12 the general instructions are those
\* of its band: 1..3 the first list, 4..5 the second, 6..7 the third, 8..12
\* the fourth; every such intensity is in exactly one band.
C10_BandSelection ==
  (Done("getRecomendacionesIntensidad")
     /\ args.intensidad \in {10 * i : i \in 1..12})
  => LET i        == args.intensidad \div 10
         bands    == << 1..3, 4..5, 6..7, 8..12 >>
         inBands  == {b \in 1..4 : i \in bands[b]}
         specific == recomendacionesEspecificas[args.tipoConstruccion]
     IN  /\ Cardinality(inBands) = 1
         /\ \A b \in inBands :
              \/ ret = recomendacionesBase[b]
              \/ ret = recomendacionesBase[b] \o specific

\* intensity 7, the upper limit of the third band
C10_Witness ==
  /\ Done("getRecomendacionesIntensidad")
  /\ args.intensidad = 70
  /\ Len(ret) >= 5
  /\ SubSeq(ret, 1, 5) = recomendacionesBase[3]
  /\ ret[Len(ret)] # recomendacionesBase[4][8]

\* the whole intensities 1..12 in tenths, and the band of one of them
WholeIntensities == {10 * i : i \in 1..12}

BandOf(intensidad) ==
  CHOOSE b \in 1..4 : intensidad \div 10 \in << 1..3, 4..5, 6..7, 8..12 >>[b]

\* the elements of a list
Elements(list) == {list[k] : k \in 1..Len(list)}

\* the construction-specific instructions of all four types
AllSpecific ==
  UNION {Elements(recomendacionesEspecificas[t]) : t \in ConstructionTypes}

\* C11: for an intensity >= 5 the list returned is the general list of the
\* band followed, at the end and in table order, by the instructions of the
\* given construction type; for an intensity < 5 it has no construction-specific
\* instruction and is the same for all four construction types.
C11_SpecificAppendedFromFive ==
  Done("getRecomendacionesIntensidad")
  => LET specific == recomendacionesEspecificas[args.tipoConstruccion]
         cut      == Len(ret) - Len(specific)
     IN  /\ args.intensidad >= 50
            => /\ cut > 0
               /\ \E b \in 1..4 :
                    /\ SubSeq(ret, 1, cut) = recomendacionesBase[b]
                    /\ args.intensidad \in WholeIntensities
                       => b = BandOf(args.intensidad)
               /\ SubSeq(ret, cut + 1, Len(ret)) = specific
         /\ args.intensidad < 50
            => /\ Elements(ret) \cap AllSpecific = {}
               /\ \A t \in ConstructionTypes :
                    getRecomendacionesIntensidad(args.intensidad, t) = ret

\* intensity 5 in an adobe building: three general instructions of the band
\* 4..5, then the three of adobe
C11_Witness ==
  /\ Done("getRecomendacionesIntensidad")
  /\ args.intensidad = 50
  /\ args.tipoConstruccion = "adobe"
  /\ Len(ret) = 6
  /\ ret[3] = recomendacionesBase[2][3]
  /\ ret[4] = recomendacionesEspecificas["adobe"][1]
  /\ ret[6] = recomendacionesEspecificas["adobe"][3]

\* C12: for a fixed construction type every instruction returned for an
\* intensity of a lower band is also returned for every intensity of each
\* higher band.
C12_SupersetAcrossBands ==
  (Done("getRecomendacionesIntensidad") /\ args.intensidad \in WholeIntensities)
  => \A j \in WholeIntensities :
       BandOf(j) > BandOf(args.intensidad)
       => Elements(ret)
            \subseteq Elements(getRecomendacionesIntensidad(j,
                                 args.tipoConstruccion))

\* C13: for a fixed construction type and whole intensities i < j in 1..12 the
\* list for j is at least as long as the list for i, and strictly longer when
\* i and j are in different bands.
C13_LengthMonotone ==
  (Done("getRecomendacionesIntensidad") /\ args.intensidad \in WholeIntensities)
  => \A j \in WholeIntensities :
       j > args.intensidad
       => LET longer == Len(getRecomendacionesIntensidad(j,
                              args.tipoConstruccion))
          IN  /\ longer >= Len(ret)
              /\ BandOf(j) # BandOf(args.intensidad) => longer > Len(ret)

\* intensity 5 against 6 and 4 in a concrete building: 3 + 2 instructions
\* against 5 + 2 and against 3
C13_Witness ==
  /\ Done("getRecomendacionesIntensidad")
  /\ args.intensidad = 50
  /\ args.tipoConstruccion = "hormigon"
  /\ Len(ret) = 5
  /\ Len(getRecomendacionesIntensidad(60, "hormigon")) = 7
  /\ Len(getRecomendacionesIntensidad(40, "hormigon")) = 3

\* the depth multiplier as the claim tabulates it, in tenths
C14_Multiplier(profundidadKm) ==
  CASE profundidadKm < 300                         -> 12
    [] profundidadKm >= 300 /\ profundidadKm < 700 -> 10
    [] profundidadKm >= 700                        -> 8

\* C14: the depth multiplier of estimarIntensidadLocal is 1.2 for depth < 30,
\* 1.0 for 30 <= depth < 70 and 0.8 for depth >= 70 (29 gives 1.2, 30 and 69
\* give 1.0, 70 gives 0.8), and the result is the clamped, rounded product of
\* the attenuated value, that multiplier and the soil factor.
C14_DepthMultiplier ==
  /\ factorProfundidad(290) = 12
  /\ factorProfundidad(300) = 10
  /\ factorProfundidad(690) = 10
  /\ factorProfundidad(700) = 8
  /\ Done("estimarIntensidadLocal")
     => /\ factorProfundidad(args.profundidadKm)
             = C14_Multiplier(args.profundidadKm)
        /\ ret.value
             = MinX(12, MaxX(1, RoundX(TimesTenths(TimesTenths(
                 intensidadBase(args.magnitud, args.distanciaKm,
                   coeficientesRegionales[regionToMacroZone(args.regionUsuario)]),
                 C14_Multiplier(args.profundidadKm)),
                 factoresSuelo[args.tipoSuelo]))))

\* a depth of exactly 30 km: the result is below the one of 29.9 km
C14_Witness ==
  /\ Done("estimarIntensidadLocal")
  /\ args.profundidadKm = 300
  /\ args.distanciaKm > 0
  /\ ret.value.v < estimarIntensidadLocal(args.magnitud, 299, args.distanciaKm,
                                          args.tipoSuelo,
                                          args.regionUsuario).value.v

\* C15: for fixed magnitude, depth, soil type and region code and distances
\* 0 < d1 <= d2 the result of estimarIntensidadLocal at d2 is not greater than
\* the result at d1.
C15_MonotoneInDistance ==
  (Done("estimarIntensidadLocal") /\ args.distanciaKm > 0)
  => \A d2 \in Distances :
       d2 >= args.distanciaKm
       => estimarIntensidadLocal(args.magnitud, args.profundidadKm, d2,
                                 args.tipoSuelo, args.regionUsuario).value.v
            <= ret.value.v

\* a result strictly between the clamps that is lower at a greater distance
C15_Witness ==
  /\ Done("estimarIntensidadLocal")
  /\ args.distanciaKm = 100
  /\ ret.value.v < 12
  /\ \E d2 \in Distances :
       /\ d2 > args.distanciaKm
       /\ estimarIntensidadLocal(args.magnitud, args.profundidadKm, d2,
                                 args.tipoSuelo, args.regionUsuario).value.v
            \in 2..(ret.value.v - 1)

\* the index the claim gives for an input of the lookups (in tenths): the
\* rounded input, 1 below the range and 12 above it
C16_Index(intensidad) ==
  CASE intensidad.k = "inf" -> IF intensidad.v < 0 THEN 1 ELSE 12
    [] intensidad.k = "fin" /\ intensidad.v < 5    -> 1
    [] intensidad.k = "fin" /\ intensidad.v >= 125 -> 12
    [] OTHER -> (intensidad.v + 5) \div 10

\* C16: for every input in 1..12 getDescripcionIntensidad and
\* getColorIntensidad return the entry of that index, and for every input
\* ordered outside that range (0, negative, above 12, the infinities) the
\* entry of 1 or of 12; never the entry of index 0 and never undefined.
C16_LookupsClamp ==
  /\ (Done("getDescripcionIntensidad") /\ args.intensidad.k # "nan")
     => /\ ret = descripciones[C16_Index(args.intensidad)]
        /\ ret \in {descripciones[i] : i \in 1..12}
        /\ ret # descripciones[0]
        /\ ret # "undefined"
  /\ (Done("getColorIntensidad") /\ args.intensidad.k # "nan")
     => /\ ret = colores[C16_Index(args.intensidad)]
        /\ ret \in {colores[i] : i \in 1..12}
        /\ ret # colores[0]
        /\ ret # "undefined"

\* the description of intensity 0 is the one of intensity 1
C16_Witness ==
  /\ Done("getDescripcionIntensidad")
  /\ args.intensidad = Fin(0)
  /\ ret = descripciones[1]

\* C18: every zone regionToMacroZone returns has an entry in the velocity
\* table and in the coefficient table, so no call of calcularTiempoLlegada or
\* estimarIntensidadLocal reads a missing entry, whatever the region code.
C18_TablesCoverZones ==
  /\ Done("regionToMacroZone")
     => /\ ret \in DOMAIN velocidadesRegionales
        /\ ret \in DOMAIN coeficientesRegionales
  /\ Done("calcularTiempoLlegada")
     => /\ regionToMacroZone(args.regionUsuario) \in DOMAIN velocidadesRegionales
        /\ ret.threw = FALSE
  /\ Done("estimarIntensidadLocal")
     => /\ regionToMacroZone(args.regionUsuario) \in DOMAIN coeficientesRegionales
        /\ ret.threw = FALSE

\* an estimate for a user of the austral zone
C18_Witness ==
  /\ Done("estimarIntensidadLocal")
  /\ regionToMacroZone(args.regionUsuario) = "austral"
  /\ args.distanciaKm > 0
  /\ ret.threw = FALSE
  /\ ret.value.k = "fin"

\* C20: the distance from a to b is the distance from b to a, and the distance
\* from a to a is 0.
C20_HaversineSymmetric ==
  Done("calcularDistanciaHaversine")
  => /\ ret = calcularDistanciaHaversine(args.p2.lat, args.p2.lon,
                                         args.p1.lat, args.p1.lon)
     /\ args.p1 = args.p2 => ret = 0

\* two places of different latitude and longitude at a positive distance
C20_Witness ==
  /\ Done("calcularDistanciaHaversine")
  /\ args.p1.lat < args.p2.lat
  /\ args.p1.lon # args.p2.lon
  /\ ret > 0

\* the depth class: 1 for depth < 30 km, 2 for 30 <= depth < 70, 3 beyond
C21_DepthClass(profundidadKm) ==
  IF profundidadKm < 300 THEN 1 ELSE IF profundidadKm < 700 THEN 2 ELSE 3

\* C21: for fixed magnitude, distance > 0, soil type and region code the
\* result of estimarIntensidadLocal for a shallower depth class is not below
\* the result for a deeper one, also when the unclamped value is negative.
C21_ShallowerNotLower ==
  (Done("estimarIntensidadLocal") /\ args.distanciaKm > 0)
  => \A deeper \in Depths :
       C21_DepthClass(deeper) > C21_DepthClass(args.profundidadKm)
       => estimarIntensidadLocal(args.magnitud, deeper, args.distanciaKm,
                                 args.tipoSuelo, args.regionUsuario).value.v
            <= ret.value.v

\* a weak, far earthquake: the attenuated value is negative, the factor 1.2
\* makes it more negative than 0.8 does, and both results are clamped to 1
C21_Witness ==
  /\ Done("estimarIntensidadLocal")
  /\ args.distanciaKm > 0
  /\ args.profundidadKm = 299
  /\ intensidadBase(args.magnitud, args.distanciaKm,
       coeficientesRegionales[regionToMacroZone(args.regionUsuario)]).v < -MICRO
  /\ ret.value = Fin(1)
  /\ estimarIntensidadLocal(args.magnitud, 700, args.distanciaKm,
                            args.tipoSuelo, args.regionUsuario).value = Fin(1)

\* C30: for segundos >= 0 the seconds part of formatearTiempo is in 0..59,
\* inputs below one minute give "Ns" and inputs of a minute or more
\* "Mm Ss"; every negative input gives "0s".
C30_SecondsBelowSixty ==
  Done("formatearTiempo")
  => /\ args.segundos >= 0
        => /\ ret.segundos \in 0..59
           /\ args.segundos < 60000 => ret.minutos = << >>
           /\ args.segundos >= 60000 => ret.minutos # << >>
     /\ args.segundos < 0 => ret = [minutos |-> << >>, segundos |-> 0]

(***************************************************************************)
(* A caller that calls the estimators again and again and mutates the      *)
(* lists it was given (specification SpecCalls)                            *)
(***************************************************************************)
\* what the estimators other than getRecomendacionesIntensidad return: they
\* read their arguments and the module's constant tables, which no function
\* writes and no returned value shares
estimatorResult(a) ==
  CASE a.fn = "regionToMacroZone" -> regionToMacroZone(a.regionCode)
    [] a.fn = "calcularTiempoLlegada" ->
         calcularTiempoLlegada(a.epicentro.lat, a.epicentro.lon, a.usuario.lat,
                               a.usuario.lon, a.profundidadKm, a.regionUsuario)
    [] a.fn = "estimarIntensidadLocal" ->
         estimarIntensidadLocal(a.magnitud, a.profundidadKm, a.distanciaKm,
                                a.tipoSuelo, a.regionUsuario)
    [] a.fn = "getDescripcionIntensidad" ->
         getDescripcionIntensidad(a.intensidad)
    [] a.fn = "getColorIntensidad" -> getColorIntensidad(a.intensidad)

\* the same at the inputs of the model, computed once
estimatorResults == [a \in EstimatorInputs |-> estimatorResult(a)]

InitCalls ==
  /\ args = [fn |-> "none"]
  /\ ret = << >>
  /\ pc = "ready"
  /\ NoTsunami
  /\ NoHeap
  /\ NoAlert
  /\ NoHome
  /\ NoServiceWorker

\* the call with input a returned r
Returned(a, r) ==
  /\ args' = a
  /\ ret' = r
  /\ pc' = "done"
  /\ firstRet' = IF firstRet[a] = Null THEN [firstRet EXCEPT ![a] = Some(r)]
                 ELSE firstRet
  /\ recalled' = (a \in stale)
  /\ UNCHANGED stale
  /\ UNCHANGED tsunamiVars
  /\ UNCHANGED << alertVars, homeVars, swVars >>

\* a call of getRecomendacionesIntensidad: it builds its table and returns
\* one of its arrays or a new array, which the caller holds from then on
InvokeRecomendaciones ==
  \E a \in ListInputs :
    \E t \in {tablaDeLlamada(tabla)} :
      /\ tabla' = t
      /\ held' = [alias   |-> returnedAlias(a.intensidad),
                  list    |-> getRecomendacionesSobre(t, a.intensidad,
                                                      a.tipoConstruccion),
                  mutated |-> FALSE,
                  of      |-> a]
      /\ Returned(a, getRecomendacionesSobre(t, a.intensidad,
                                             a.tipoConstruccion))

\* a call of one of the other estimators
InvokeEstimator ==
  \E a \in EstimatorInputs :
    /\ Returned(a, estimatorResults[a])
    /\ UNCHANGED << tabla, held >>

\* the caller changes the list it holds in place, by push or by pop; a list
\* that is an array of the table changes in the table too
CallerMutates ==
  /\ held.mutated = FALSE
  /\ \E changed \in {Append(held.list, "otra instruccion"),
                     SubSeq(held.list, 1, Len(held.list) - 1)} :
       /\ held' = [held EXCEPT !.list = changed, !.mutated = TRUE]
       /\ tabla' = IF held.alias \in DOMAIN tabla
                   THEN [tabla EXCEPT ![held.alias] = changed]
                   ELSE tabla
  /\ stale' = stale \cup {held.of}
  /\ UNCHANGED << firstRet, recalled >>
  /\ UNCHANGED callVars
  /\ UNCHANGED tsunamiVars
  /\ UNCHANGED << alertVars, homeVars, swVars >>

NextCalls ==
  \/ InvokeRecomendaciones
  \/ InvokeEstimator
  \/ CallerMutates

SpecCalls == InitCalls /\ [][NextCalls]_vars

\* C19: a call of an estimator returns what the first call with the same
\* inputs returned, whatever calls were made in between and whatever the
\* caller did to the lists returned to it.
C19_Deterministic ==
  pc = "done" => firstRet[args] = Some(ret)

\* the list for intensity 3 is asked again after the caller changed the list
\* of the earlier call, which was the table's own array, and other estimators
\* were called: the same list is returned
C19_Witness ==
  /\ pc = "done"
  /\ args.fn = "getRecomendacionesIntensidad"
  /\ args.intensidad = 30
  /\ recalled
  /\ held.alias = 1
  /\ \A a \in EstimatorInputs : firstRet[a] # Null
  /\ firstRet[args] = Some(ret)
  /\ ret = recomendacionesBase[1]

(***************************************************************************)
(* The TsunamiWarning component (specification SpecTsunami)                *)
(***************************************************************************)
\* magnitudes in tenths, on both sides of 6.5, 7.0, 7.5 and 8.0
TsunamiMagnitudes == {64, 65, 69, 70, 74, 75, 79, 80}

\* depths in hm, on both sides of 30, 50 and 60 km
TsunamiDepths == {299, 300, 499, 500, 599, 600}

\* epicentres: off the coast west of -70.0, on longitude -70.0, east of it,
\* and off the coast at equal distances from Valparaiso and San Antonio
Epicenters ==
  { [latitude |-> -360000, longitude |-> -745000],
    [latitude |-> -185000, longitude |-> -700000],
    [latitude |-> -202000, longitude |-> -690000],
    [latitude |-> -333300, longitude |-> -720000] }

Earthquakes ==
  { [magnitude |-> m, depth |-> d, latitude |-> p.latitude,
     longitude |-> p.longitude] :
      m \in TsunamiMagnitudes, d \in TsunamiDepths, p \in Epicenters }

\* no location, a user in the port of Valparaiso, a user in Santiago
UserLocations ==
  { Null,
    Some([latitude |-> -330472, longitude |-> -716127, regionCode |-> "05"]),
    Some([latitude |-> -334500, longitude |-> -706700, regionCode |-> "13"]) }

\* nearestCoastal at the positions of the model, computed once
nearestCoastalAt ==
  [p \in {<< e.latitude, e.longitude >> : e \in Epicenters}
           \cup {<< u[1].latitude, u[1].longitude >> :
                   u \in UserLocations \ {Null}} |->
     nearestCoastal(p[1], p[2])]

\* the useState initial values
initialState ==
  [tsunamiRisk          |-> "none",
   estimatedArrivalTime |-> Null,
   nearestCoastalPoint  |-> Null,
   distanceToCoast      |-> Null,
   evacuationRoutes     |-> << >>,
   timeRemaining        |-> Null]

currentState ==
  [tsunamiRisk          |-> tsunamiRisk,
   estimatedArrivalTime |-> estimatedArrivalTime,
   nearestCoastalPoint  |-> nearestCoastalPoint,
   distanceToCoast      |-> distanceToCoast,
   evacuationRoutes     |-> evacuationRoutes,
   timeRemaining        |-> timeRemaining]

\* the state the first effect leaves: st is the state it runs in, risk the
\* adjusted risk, near and userNear the nearest coastal points of the
\* epicentre and of the user location u
riskResult(st, risk, near, u, userNear) ==
  [tsunamiRisk          |-> risk,
   estimatedArrivalTime |->
     IF risk # "none" THEN Some((near.distance * 75) \div 10)
     ELSE st.estimatedArrivalTime,
   nearestCoastalPoint  |->
     IF risk # "none" THEN Some(COASTAL_COORDINATES[near.point].name)
     ELSE st.nearestCoastalPoint,
   timeRemaining        |->
     IF risk # "none" THEN Some((near.distance * 75) \div 10)
     ELSE st.timeRemaining,
   distanceToCoast      |->
     IF risk # "none" /\ u # Null THEN Some(userNear.distance)
     ELSE st.distanceToCoast,
   evacuationRoutes     |->
     IF risk # "none" /\ u # Null /\ userNear.distance < 100
     THEN evacuationRouteTexts
     ELSE st.evacuationRoutes]

riskEffect(st, e, u) ==
  riskResult(st,
             adjustRisk(baseRisk(e.magnitude, e.depth),
                        isSubductionZone(e.longitude)),
             nearestCoastalAt[<< e.latitude, e.longitude >>],
             u,
             nearestCoastalAt[<< u[1].latitude, u[1].longitude >>])

StateIs(st) ==
  /\ tsunamiRisk = st.tsunamiRisk
  /\ estimatedArrivalTime = st.estimatedArrivalTime
  /\ nearestCoastalPoint = st.nearestCoastalPoint
  /\ distanceToCoast = st.distanceToCoast
  /\ evacuationRoutes = st.evacuationRoutes
  /\ timeRemaining = st.timeRemaining

\* a render with props e and u whose dependencies changed: the effect runs
Commit(e, u) ==
  \E st \in {riskEffect(currentState, e, u)} :
      /\ earthquake' = e
      /\ userLocation' = u
      /\ tsunamiRisk' = st.tsunamiRisk
      /\ estimatedArrivalTime' = st.estimatedArrivalTime
      /\ nearestCoastalPoint' = st.nearestCoastalPoint
      /\ distanceToCoast' = st.distanceToCoast
      /\ evacuationRoutes' = st.evacuationRoutes
      /\ timeRemaining' = st.timeRemaining
      /\ UNCHANGED callVars
      /\ UNCHANGED heapVars
      /\ UNCHANGED << alertVars, homeVars, swVars >>

\* the component after its first render and effects
InitTsunami ==
  /\ args = [fn |-> "none"]
  /\ ret = << >>
  /\ pc = "ready"
  /\ earthquake \in Earthquakes
  /\ userLocation \in UserLocations
  /\ StateIs(riskEffect(initialState, earthquake, userLocation))
  /\ NoHeap
  /\ NoAlert
  /\ NoHome
  /\ NoServiceWorker

\* the parent selects another earthquake
EarthquakeChange ==
  \E e \in Earthquakes : e # earthquake /\ Commit(e, userLocation)

\* the user location changes
UserLocationChange ==
  \E u \in UserLocations : u # userLocation /\ Commit(earthquake, u)

\* the parent renders again with new objects of equal value: a poll stores a
\* new selectedEarthquake object, getUserLocation() builds a new object on
\* every render; the dependencies differ by identity and the effect runs
ParentRerender ==
  /\ earthquake \in Earthquakes
  /\ Commit(earthquake, userLocation)

\* the interval of the countdown effect fires; it exists while
\* timeRemaining > 0 and the risk is not "none"
Tick ==
  /\ timeRemaining # Null
  /\ timeRemaining[1] > 0
  /\ tsunamiRisk # "none"
  /\ timeRemaining' = IF timeRemaining[1] <= 0 THEN Some(0)
                      ELSE Some(timeRemaining[1] - 1000)
  /\ UNCHANGED << earthquake, userLocation, tsunamiRisk, estimatedArrivalTime,
                  nearestCoastalPoint, distanceToCoast, evacuationRoutes >>
  /\ UNCHANGED callVars
  /\ UNCHANGED heapVars
  /\ UNCHANGED << alertVars, homeVars, swVars >>

NextTsunami ==
  \/ EarthquakeChange
  \/ UserLocationChange
  \/ ParentRerender
  \/ Tick

SpecTsunami == InitTsunami /\ [][NextTsunami]_vars

(***************************************************************************)
(* Properties of TsunamiWarning (specification SpecTsunami)                *)
(***************************************************************************)
\* the base risk as the claim tabulates it
C3_Table(magnitude, depth) ==
  CASE magnitude >= 80                   -> "extreme"
    [] magnitude >= 75 /\ magnitude < 80 ->
         IF depth < 600 THEN "high" ELSE "moderate"
    [] magnitude >= 70 /\ magnitude < 75 ->
         IF depth < 500 THEN "moderate" ELSE "low"
    [] magnitude >= 65 /\ magnitude < 70 ->
         IF depth < 300 THEN "low" ELSE "none"
    [] magnitude < 65                    -> "none"

\* C3: the base risk of the current earthquake is Extreme from magnitude 8.0,
\* High (depth < 60) or Moderate from 7.5, Moderate (depth < 50) or Low from
\* 7.0, Low (depth < 30) or None from 6.5, None below 6.5; without the
\* subduction adjustment the component holds exactly that risk.
C3_BaseRiskThresholds ==
  /\ baseRisk(earthquake.magnitude, earthquake.depth)
       = C3_Table(earthquake.magnitude, earthquake.depth)
  /\ earthquake.longitude >= -700000
     => tsunamiRisk = C3_Table(earthquake.magnitude, earthquake.depth)

\* magnitude 7.5 at a depth of exactly 60 km, east of -70.0: Moderate
C3_Witness ==
  /\ earthquake.magnitude = 75
  /\ earthquake.depth = 600
  /\ earthquake.longitude > -700000
  /\ tsunamiRisk = "moderate"

\* the severity one level above, Extreme staying Extreme
C4_OneLevelUp(risk) ==
  CASE risk = "low"      -> "moderate"
    [] risk = "moderate" -> "high"
    [] risk = "high"     -> "extreme"
    [] risk = "extreme"  -> "extreme"

\* C4: west of longitude -70.0 a base risk other than None is raised by
\* exactly one level (Extreme stays Extreme) and None stays None; at or east
\* of -70.0 the risk held is the base risk.
C4_SubductionEscalation ==
  LET base == baseRisk(earthquake.magnitude, earthquake.depth)
  IN  /\ (earthquake.longitude < -700000 /\ base # "none")
         => tsunamiRisk = C4_OneLevelUp(base)
      /\ (earthquake.longitude < -700000 /\ base = "none")
         => tsunamiRisk = "none"
      /\ earthquake.longitude >= -700000 => tsunamiRisk = base

\* a Low base risk west of -70.0 is held as Moderate
C4_Witness ==
  /\ earthquake.longitude < -700000
  /\ baseRisk(earthquake.magnitude, earthquake.depth) = "low"
  /\ tsunamiRisk = "moderate"

\* C5: the component holds no nearest coastal point and no estimated arrival
\* time when the risk of the current earthquake is None, and holds both when
\* it is not None.  Stated for the props the Home page renders the component
\* with: a magnitude of 6.5 or more and a user location.
C5_NoEstimateWithoutRisk ==
  (earthquake.magnitude >= 65 /\ userLocation # Null)
  => /\ tsunamiRisk = "none"
        => (nearestCoastalPoint = Null /\ estimatedArrivalTime = Null)
     /\ tsunamiRisk # "none"
        => (nearestCoastalPoint # Null /\ estimatedArrivalTime # Null)

\* the distances from the epicentres of the model to the coastal points
C17_Distances ==
  [p \in {<< e.latitude, e.longitude >> : e \in Epicenters} |->
     [i \in 1..Len(COASTAL_COORDINATES) |->
        calcularDistanciaHaversine(p[1], p[2], COASTAL_COORDINATES[i].lat,
                                   COASTAL_COORDINATES[i].lon)]]

\* the coastal points at the least distance from the current epicentre
C17_Minimal ==
  LET d == C17_Distances[<< earthquake.latitude, earthquake.longitude >>]
  IN  {i \in DOMAIN d : \A j \in DOMAIN d : d[i] <= d[j]}

\* C17: when the risk is not None the nearest coastal point held is a point of
\* the 16-entry table at the least distance from the epicentre, and of several
\* points at that distance the first in table order.
C17_NearestCoastalPoint ==
  /\ Len(COASTAL_COORDINATES) = 16
  /\ tsunamiRisk # "none"
     => \E i \in C17_Minimal :
          /\ \A j \in C17_Minimal : i <= j
          /\ nearestCoastalPoint = Some(COASTAL_COORDINATES[i].name)

\* an epicentre as far from Valparaiso as from San Antonio: Valparaiso, the
\* earlier entry, is held
C17_Witness ==
  /\ tsunamiRisk # "none"
  /\ Cardinality(C17_Minimal) = 2
  /\ nearestCoastalPoint = Some("Valparaiso")
  /\ COASTAL_COORDINATES[7].name = "San Antonio"
  /\ 7 \in C17_Minimal

\* C22: for a fixed earthquake and fixed user-location values the countdown
\* timeRemaining never increases as minute ticks and parent re-renders
\* interleave, and it stays within 0..estimatedArrivalTime.  Stated while the
\* warning is shown (risk not None, user location set).
C22_CountdownNeverIncreases ==
  [][(tsunamiRisk' # "none" /\ userLocation' # Null)
     => /\ timeRemaining'[1] >= 0
        /\ timeRemaining'[1] <= estimatedArrivalTime'[1]
        /\ (earthquake' = earthquake /\ userLocation' = userLocation
              /\ tsunamiRisk # "none")
           => timeRemaining'[1] <= timeRemaining[1]]_vars

\* C25: the evacuation instructions are non-empty only if the current user
\* location is set and less than 10 km from the nearest coastal point.
\* Stated while the warning is shown for a user location (risk not None).
C25_RoutesOnlyNearCoast ==
  (tsunamiRisk # "none" /\ userLocation # Null /\ evacuationRoutes # << >>)
  => nearestCoastalAt[<< userLocation[1].latitude,
                         userLocation[1].longitude >>].distance < 100

\* the severity order None < Low < Moderate < High < Extreme
C28_Rank(risk) ==
  CASE risk = "none"     -> 0
    [] risk = "low"      -> 1
    [] risk = "moderate" -> 2
    [] risk = "high"     -> 3
    [] risk = "extreme"  -> 4

\* the risk after the adjustment
C28_Final(magnitude, depth, longitude) ==
  adjustRisk(baseRisk(magnitude, depth), isSubductionZone(longitude))

\* C28: the risk held is the final risk of the current earthquake; no greater
\* magnitude at the same depth and longitude has a lower final risk, no
\* greater depth at the same magnitude and longitude a higher one; a risk
\* other than None implies a magnitude of 6.5 or more.
C28_RiskMonotone ==
  /\ tsunamiRisk = C28_Final(earthquake.magnitude, earthquake.depth,
                             earthquake.longitude)
  /\ \A m \in TsunamiMagnitudes :
       m >= earthquake.magnitude
       => C28_Rank(C28_Final(m, earthquake.depth, earthquake.longitude))
            >= C28_Rank(tsunamiRisk)
  /\ \A d \in TsunamiDepths :
       d >= earthquake.depth
       => C28_Rank(C28_Final(earthquake.magnitude, d, earthquake.longitude))
            <= C28_Rank(tsunamiRisk)
  /\ tsunamiRisk # "none" => earthquake.magnitude >= 65

\* magnitude 7.0 at 49.9 km west of -70.0 is High; at 50 km it is Moderate and
\* at magnitude 7.5 Extreme
C28_Witness ==
  /\ earthquake.magnitude = 70
  /\ earthquake.depth = 499
  /\ earthquake.longitude < -700000
  /\ tsunamiRisk = "high"
  /\ C28_Final(70, 500, earthquake.longitude) = "moderate"
  /\ C28_Final(75, 499, earthquake.longitude) = "extreme"

\* ---------------------------------------------------------------------------
\* EarthquakeAlert (src/unnamed/part_004): the countdown to the S wave
\* ---------------------------------------------------------------------------

\* an instant after the S wave of every earthquake of the model has reached
\* every user of the model; the clock of the model stops there
LastInstant == 200000

\* the earthquakes the component is shown, utc_time in ms
AlertEarthquakes ==
  { [id |-> "a", latitude |-> -330000, longitude |-> -716000, depth |-> 300,
     utc_time |-> 0],
    [id |-> "b", latitude |-> -367000, longitude |-> -730000, depth |-> 300,
     utc_time |-> 20000] }

AlertUserLocations ==
  { [latitude |-> -341708, longitude |-> -707444, regionCode |-> "06"],
    [latitude |-> -334500, longitude |-> -706700, regionCode |-> "13"] }

\* the instants of the first render: before the event time (a device clock
\* that is behind), at it, whole and half seconds after it, after every wave
AlertClocks == {-2000, 0, 1500, 4000, 21000, LastInstant}

\* calcularTiempoLlegada for the props of the model, computed once
arrivalTimesAt ==
  [q \in AlertEarthquakes \X AlertUserLocations |->
     calcularTiempoLlegada(q[1].latitude, q[1].longitude, q[2].latitude,
                           q[2].longitude, q[1].depth, q[2].regionCode)]

\* what the first effect sets at the instant now, times being the result of
\* calcularTiempoLlegada for its props and eventTime the earthquake's utc_time
alertEffect(times, eventTime, now) ==
  LET elapsed == now - eventTime
  IN  IF elapsed < times.tiempoOndaS
      THEN [arrivalTimes  |-> << times >>,
            timeRemaining |-> << times.tiempoOndaS - elapsed >>,
            alertActive   |-> TRUE]
      ELSE [arrivalTimes  |-> << times >>,
            timeRemaining |-> << 0 >>,
            alertActive   |-> FALSE]

\* the updater of the interval that never ends the alert
countdown_noExpiry(prev) ==
  IF prev = << >> \/ prev[1] <= 0
  THEN [timeRemaining |-> << 0 >>, expired |-> FALSE]
  ELSE [timeRemaining |-> << prev[1] - 1000 >>, expired |-> FALSE]

\* the updater of the interval: the new timeRemaining, and whether it cleared
\* the timer and called setAlertActive(false)
countdown(prev) ==
  IF prev = << >> \/ prev[1] <= 0
  THEN [timeRemaining |-> << 0 >>, expired |-> TRUE]
  ELSE [timeRemaining |-> << prev[1] - 1000 >>, expired |-> FALSE]

\* the instant t after the clock, and LastInstant from there on
Later(t) == IF clock + t > LastInstant THEN LastInstant ELSE clock + t

\* the instants at which the parent may render: with the last step of the
\* component, or half a second after it
RenderInstants == {clock, Later(500)}

\* the first effect ran for props e and u at the instant now
AlertCommit(e, u, now) ==
  \E st \in {alertEffect(arrivalTimesAt[<< e, u >>], e.utc_time, now)} :
    /\ alertEarthquake' = << e >>
    /\ alertUser' = << u >>
    /\ arrivalTimes' = st.arrivalTimes
    /\ alertTimeRemaining' = st.timeRemaining
    /\ alertActive' = st.alertActive
    /\ clock' = now
    /\ UNCHANGED << callVars, tsunamiVars, heapVars, homeVars, swVars >>

\* the component after its first render and effects
InitAlert ==
  /\ args = [fn |-> "none"]
  /\ ret = << >>
  /\ pc = "ready"
  /\ NoTsunami
  /\ NoHeap
  /\ NoHome
  /\ NoServiceWorker
  /\ clock \in AlertClocks
  /\ \E e \in AlertEarthquakes, u \in AlertUserLocations :
       \E st \in {alertEffect(arrivalTimesAt[<< e, u >>], e.utc_time, clock)} :
         /\ alertEarthquake = << e >>
         /\ alertUser = << u >>
         /\ arrivalTimes = st.arrivalTimes
         /\ alertTimeRemaining = st.timeRemaining
         /\ alertActive = st.alertActive

\* the parent passes another earthquake
AlertEarthquakeChange ==
  \E e \in AlertEarthquakes, now \in RenderInstants :
    /\ e # alertEarthquake[1]
    /\ AlertCommit(e, alertUser[1], now)

\* the parent passes another user location
AlertUserLocationChange ==
  \E u \in AlertUserLocations, now \in RenderInstants :
    /\ u # alertUser[1]
    /\ AlertCommit(alertEarthquake[1], u, now)

\* the parent renders again: getUserLocation() returns a new object with the
\* same values, a changed dependency, and the first effect runs again
AlertRerender ==
  \E now \in RenderInstants :
    /\ alertEarthquake # << >>
    /\ AlertCommit(alertEarthquake[1], alertUser[1], now)

\* the interval of the second effect fires, one second after it was set
AlertTick ==
  /\ alertActive
  /\ alertTimeRemaining # << >>
  /\ \E c \in {countdown(alertTimeRemaining)} :
       /\ alertTimeRemaining' = c.timeRemaining
       /\ alertActive' = (alertActive /\ ~c.expired)
  /\ clock' = Later(1000)
  /\ UNCHANGED << alertEarthquake, alertUser, arrivalTimes >>
  /\ UNCHANGED << callVars, tsunamiVars, heapVars, homeVars, swVars >>

NextAlert ==
  \/ AlertEarthquakeChange
  \/ AlertUserLocationChange
  \/ AlertRerender
  \/ AlertTick

SpecAlert == InitAlert /\ [][NextAlert]_vars

\* the interval is a timer of the browser: while it is set it fires
SpecAlertFair == SpecAlert /\ WF_vars(AlertTick)

\* C23: while EarthquakeAlert shows a countdown for an earthquake that is not
\* in the future of the device clock, timeRemaining is at least 0 and at most
\* arrivalTimes.tiempoOndaS.
C23_WithinBounds ==
  (alertTimeRemaining # << >> /\ clock >= alertEarthquake[1].utc_time)
  => /\ alertTimeRemaining[1] >= 0
     /\ alertTimeRemaining[1] <= arrivalTimes[1].tiempoOndaS

\* C24: with the interval firing, an active alert becomes inactive with
\* timeRemaining 0, and an inactive alert stays as it is while the props keep
\* their values.
C24_AlertEnds ==
  /\ (alertActive ~> (~alertActive /\ alertTimeRemaining = << 0 >>))
  /\ [][(~alertActive /\ alertEarthquake' = alertEarthquake
           /\ alertUser' = alertUser)
        => (~alertActive' /\ alertTimeRemaining' = alertTimeRemaining)]_vars

C24_Witness ==
  /\ alertEarthquake # << >>
  /\ ~alertActive
  /\ alertTimeRemaining = << 0 >>
  /\ clock > alertEarthquake[1].utc_time + arrivalTimes[1].tiempoOndaS
  /\ clock < LastInstant

\* ---------------------------------------------------------------------------
\* Home (src/app/page.tsx) and the API client (src/unnamed/part_006)
\* ---------------------------------------------------------------------------

\* the earthquakes the API reports, magnitude in tenths: two at or above the
\* 5.5 of Emergency Mode and one below
HomeEarthquakes ==
  { [id |-> "x", magnitude |-> 60],
    [id |-> "y", magnitude |-> 50],
    [id |-> "z", magnitude |-> 55] }

\* what a fetch gives: a rejection (no network), a status that is not ok, a
\* body without data, or a body with the earthquakes in data
ApiResponses ==
  { [ok |-> FALSE, rejected |-> TRUE, data |-> << >>],
    [ok |-> FALSE, rejected |-> FALSE, data |-> << >>],
    [ok |-> TRUE, rejected |-> FALSE, data |-> << >>] }
  \cup { [ok |-> TRUE, rejected |-> FALSE, data |-> << d >>] :
           d \in { << >> } \cup { << e >> : e \in HomeEarthquakes }
                 \cup { << e, f >> : e, f \in HomeEarthquakes } }

\* fetchLatestEarthquake: data.data[0] || null, null after any error
fetchLatestEarthquake(response) ==
  IF response.rejected \/ ~response.ok \/ response.data = << >> THEN << >>
  ELSE IF response.data[1] = << >> THEN << >>
  ELSE << response.data[1][1] >>

\* fetchRecentEarthquakes: data.data || [], [] after any error
fetchRecentEarthquakes(response) ==
  IF response.rejected \/ ~response.ok \/ response.data = << >> THEN << >>
  ELSE response.data[1]

\* selectedEarthquake after a poll that leaves the user's choice alone
selectedAfterPoll_keepsChoice(selected, latest) ==
  IF latest # << >> /\ selected = << >> THEN latest ELSE selected

\* selectedEarthquake after fetchData got latest
selectedAfterPoll(selected, latest) ==
  IF latest # << >> THEN latest ELSE selected

\* emergencyModeActive after fetchData got latest
emergencyAfterPoll(active, latest) ==
  IF latest # << >> /\ latest[1].magnitude >= 55 THEN TRUE ELSE active

\* the handler named h ran, with result r where it is a fetch
Handled(h, r) ==
  /\ homeEvent' = [handler |-> h, result |-> r, before |-> selectedEarthquake]
  /\ UNCHANGED << callVars, tsunamiVars, heapVars, alertVars, swVars >>

\* Home after its first render and effects: fetchData is called at once
InitHome ==
  /\ args = [fn |-> "none"]
  /\ ret = << >>
  /\ pc = "ready"
  /\ NoTsunami
  /\ NoHeap
  /\ NoAlert
  /\ NoServiceWorker
  /\ latestEarthquake = << >>
  /\ selectedEarthquake = << >>
  /\ recentEarthquakes = << >>
  /\ loading = TRUE
  /\ emergencyModeActive = FALSE
  /\ located \in BOOLEAN
  /\ poll = "latest"
  /\ homeEvent = [handler |-> "fetchData", result |-> << >>, before |-> << >>]
  /\ userClosed = FALSE

\* the interval calls fetchData, the call before it having finished
PollStart ==
  /\ poll = "idle"
  /\ poll' = "latest"
  /\ loading' = TRUE
  /\ UNCHANGED << latestEarthquake, selectedEarthquake, recentEarthquakes,
                  emergencyModeActive, located, userClosed >>
  /\ Handled("fetchData", << >>)

\* fetchLatestEarthquake settles and fetchData runs up to its second await
PollLatest ==
  /\ poll = "latest"
  /\ \E response \in ApiResponses :
       \E latest \in {fetchLatestEarthquake(response)} :
         /\ latestEarthquake' = IF latest # << >> THEN latest
                                ELSE latestEarthquake
         /\ selectedEarthquake' = selectedAfterPoll(selectedEarthquake, latest)
         /\ emergencyModeActive' = emergencyAfterPoll(emergencyModeActive,
                                                      latest)
         /\ userClosed' = (userClosed /\ ~emergencyModeActive')
         /\ Handled("pollLatest", latest)
  /\ poll' = "recent"
  /\ UNCHANGED << recentEarthquakes, loading, located >>

\* fetchRecentEarthquakes settles and fetchData runs to its end
PollRecent ==
  /\ poll = "recent"
  /\ \E response \in ApiResponses :
       recentEarthquakes' = fetchRecentEarthquakes(response)
  /\ loading' = FALSE
  /\ poll' = "idle"
  /\ UNCHANGED << latestEarthquake, selectedEarthquake, emergencyModeActive,
                  located, userClosed >>
  /\ Handled("pollRecent", << >>)

\* the user picks an earthquake of the list or of the map, which are shown
\* when loading is false
SelectEarthquake ==
  /\ ~loading
  /\ \E i \in DOMAIN recentEarthquakes :
       selectedEarthquake' = << recentEarthquakes[i] >>
  /\ UNCHANGED << latestEarthquake, recentEarthquakes, loading,
                  emergencyModeActive, located, poll, userClosed >>
  /\ Handled("select", << >>)

\* onClose of EmergencyMode, which is rendered when emergencyModeActive,
\* selectedEarthquake and getUserLocation() are all set
CloseEmergency ==
  /\ emergencyModeActive
  /\ selectedEarthquake # << >>
  /\ located
  /\ emergencyModeActive' = FALSE
  /\ userClosed' = TRUE
  /\ UNCHANGED << latestEarthquake, selectedEarthquake, recentEarthquakes,
                  loading, located, poll >>
  /\ Handled("close", << >>)

\* the button Activar Modo Emergencia, disabled without a selected earthquake
\* or without a user location
ActivateEmergency ==
  /\ selectedEarthquake # << >>
  /\ located
  /\ emergencyModeActive' = TRUE
  /\ userClosed' = FALSE
  /\ UNCHANGED << latestEarthquake, selectedEarthquake, recentEarthquakes,
                  loading, located, poll >>
  /\ Handled("activate", << >>)

\* geolocation or the saved location appears or goes away
LocationChange ==
  /\ located' = ~located
  /\ UNCHANGED << latestEarthquake, selectedEarthquake, recentEarthquakes,
                  loading, emergencyModeActive, poll, userClosed >>
  /\ Handled("location", << >>)

NextHome ==
  \/ PollStart
  \/ PollLatest
  \/ PollRecent
  \/ SelectEarthquake
  \/ CloseEmergency
  \/ ActivateEmergency
  \/ LocationChange

SpecHome == InitHome /\ [][NextHome]_vars

\* C26: after the user closed Emergency Mode, emergencyModeActive becomes true
\* only by the activate button or by a poll whose latest earthquake has
\* another id than the latest earthquake known before.
C26_StaysClosed ==
  [][(userClosed /\ ~emergencyModeActive /\ emergencyModeActive')
     => \/ homeEvent'.handler = "activate"
        \/ /\ homeEvent'.handler = "pollLatest"
           /\ homeEvent'.result # << >>
           /\ \/ latestEarthquake = << >>
              \/ homeEvent'.result[1].id # latestEarthquake[1].id]_vars

\* C27: right after fetchData got a latest earthquake, selectedEarthquake is
\* that earthquake, whatever was selected before; right after it got none,
\* selectedEarthquake is what it was before.
C27_PollSelectsLatest ==
  homeEvent.handler = "pollLatest"
  => selectedEarthquake = IF homeEvent.result # << >> THEN homeEvent.result
                          ELSE homeEvent.before

C27_Witness ==
  /\ homeEvent.handler = "pollLatest"
  /\ homeEvent.result # << >>
  /\ homeEvent.before # << >>
  /\ homeEvent.before # homeEvent.result
  /\ homeEvent.before # latestEarthquake
  /\ selectedEarthquake = homeEvent.result

\* ---------------------------------------------------------------------------
\* The service worker (src/public/sw.js): the fetch handler and the cache
\* ---------------------------------------------------------------------------

\* self.location.origin as the pieces of text URLs are made of in the model
OriginText == << "https://sismo.app" >>

\* a URL: its text in pieces, and its origin as the browser parses it
Url(origin, text) == [origin |-> origin, text |-> text]

OFFLINE_URL == Url("https://sismo.app", OriginText \o << "/offline.html" >>)

ASSETS_TO_CACHE ==
  { Url("https://sismo.app", OriginText \o << path >>) :
      path \in {"/", "/offline.html", "/alert.mp3", "/icon-192.png",
                "/icon-512.png", "/badge-96.png"} }

\* the URLs the pages request: two assets, a file that is no asset, an API
\* route, the CSN API on another host, and a URL on another port of the same
\* host, whose text begins with the text of the origin
RequestUrls ==
  { Url("https://sismo.app", OriginText \o << "/" >>),
    OFFLINE_URL,
    Url("https://sismo.app", OriginText \o << "/logo.png" >>),
    Url("https://sismo.app", OriginText \o << "/api/", "earthquakes" >>),
    Url("https://api.xor.cl", << "https://api.xor.cl", "/sismo" >>),
    Url("https://sismo.app:8443", OriginText \o << ":8443", "/api/", "status" >>) }

\* GET requests, with the Accept header of a navigation, of an image, or none
Requests ==
  [url : RequestUrls, accept : {<< >>, << "text/html" >>, << "image/png" >>}]

\* what the network gives for a request: nothing (fetch rejects), or a
\* response, of type basic for the worker's origin, cors or opaque otherwise
NetworkOutcomes(request) ==
  {<< >>} \cup
  IF request.url.origin = "https://sismo.app"
  THEN { << [status |-> st, type |-> "basic"] >> : st \in {200, 404, 500} }
  ELSE { << [status |-> 200, type |-> "cors"] >>,
         << [status |-> 500, type |-> "cors"] >>,
         << [status |-> 0, type |-> "opaque"] >> }

\* String.prototype.startsWith and includes on text in pieces
startsWith(text, prefix) ==
  /\ Len(text) >= Len(prefix)
  /\ SubSeq(text, 1, Len(prefix)) = prefix

includes(text, part) == \E i \in DOMAIN text : text[i] = part

\* the fetch handler for a request, c being the cache and network what
\* fetch(event.request) gives: whether it called respondWith, the response
\* it answers with (none when the promise gives undefined or rejects), the
\* response it put in the cache, and the cache afterwards
onFetch(c, request, network) ==
  IF ~startsWith(request.url.text, OriginText)
  THEN [responded |-> FALSE, answer |-> << >>, put |-> << >>, cache |-> c]
  ELSE IF includes(request.url.text, "/api/")
  THEN IF network # << >>
       THEN [responded |-> TRUE, answer |-> network, put |-> network,
             cache |-> [c EXCEPT ![request.url] = network]]
       ELSE [responded |-> TRUE,
             answer |-> IF c[request.url] # << >> THEN c[request.url]
                        ELSE c[OFFLINE_URL],
             put |-> << >>, cache |-> c]
  ELSE IF c[request.url] # << >>
  THEN [responded |-> TRUE, answer |-> c[request.url], put |-> << >>,
        cache |-> c]
  ELSE IF network # << >>
  THEN IF network[1].status # 200 \/ network[1].type # "basic"
       THEN [responded |-> TRUE, answer |-> network, put |-> << >>,
             cache |-> c]
       ELSE [responded |-> TRUE, answer |-> network, put |-> network,
             cache |-> [c EXCEPT ![request.url] = network]]
  ELSE [responded |-> TRUE,
        answer |-> IF request.accept # << >>
                      /\ request.accept[1] = "text/html"
                   THEN c[OFFLINE_URL] ELSE << >>,
        put |-> << >>, cache |-> c]

\* the worker after install and activate: cache.addAll stored the assets
InitServiceWorker ==
  /\ args = [fn |-> "none"]
  /\ ret = << >>
  /\ pc = "ready"
  /\ NoTsunami
  /\ NoHeap
  /\ NoAlert
  /\ NoHome
  /\ cache = [u \in ASSETS_TO_CACHE \cup RequestUrls |->
                IF u \in ASSETS_TO_CACHE
                THEN << [status |-> 200, type |-> "basic"] >> ELSE << >>]
  /\ swEvent = << >>

\* the handler ran for the request with the network giving network
Fetched(request, network) ==
  \E r \in {onFetch(cache, request, network)} :
    /\ cache' = r.cache
    /\ swEvent' = << [request |-> request, responded |-> r.responded,
                      answer |-> r.answer, put |-> r.put] >>
    /\ UNCHANGED << callVars, tsunamiVars, heapVars, alertVars, homeVars >>

\* a fetch event the handler skips as cross-origin
FetchCrossOrigin ==
  \E request \in Requests :
    /\ ~startsWith(request.url.text, OriginText)
    /\ Fetched(request, << >>)

\* a fetch event of the branch of API requests: network first
FetchApi ==
  \E request \in Requests :
    /\ startsWith(request.url.text, OriginText)
    /\ includes(request.url.text, "/api/")
    /\ \E network \in NetworkOutcomes(request) : Fetched(request, network)

\* a fetch event of the branch of the other requests: cache first
FetchOther ==
  \E request \in Requests :
    /\ startsWith(request.url.text, OriginText)
    /\ ~includes(request.url.text, "/api/")
    /\ \E network \in NetworkOutcomes(request) : Fetched(request, network)

NextServiceWorker ==
  \/ FetchCrossOrigin
  \/ FetchApi
  \/ FetchOther

SpecServiceWorker == InitServiceWorker /\ [][NextServiceWorker]_vars

\* C29: the response the fetch handler put in the cache has status 200 and
\* type basic, for API requests as for the others, and for a request to
\* another origin the handler neither answers nor puts anything.
C29_CachesOnlySuccessful ==
  swEvent # << >>
  => /\ swEvent[1].put # << >>
        => (swEvent[1].put[1].status = 200 /\ swEvent[1].put[1].type = "basic")
     /\ swEvent[1].request.url.origin # "https://sismo.app"
        => (~swEvent[1].responded /\ swEvent[1].put = << >>)

====
